---- MODULE Spec2Model ----
(***************************************************************************)
(* The composition expression engine of the character editor: the parser   *)
(* (utils/parser), the editing state hook (useCharacterState), the         *)
(* character loader (useCharacterData) and the expression synthesizer      *)
(* (SimpleCharacterEditor.generateExpression).                             *)
(*                                                                         *)
(* Text is a sequence of one-character strings, so that parsing, joining   *)
(* and splitting are computed and not assumed.                             *)
(***************************************************************************)
EXTENDS Integers, Sequences, FiniteSets, TLC

VARIABLES
    currentCharacter,   \* useCharacterData: the selected character's name
    characterData,      \* useCharacterData: the loaded CharacterData, or NullData
    loading,            \* useCharacterData: loading flag
    error,              \* useCharacterData: error flag (TRUE = a message is set)
    inflight,           \* loadCharacter calls awaiting their Promise.all: names, oldest first
    activeCompositions, \* useCharacterState: Set<string>, in insertion order
    manualOverrides,    \* useCharacterState: LayerState (layer id -> boolean)
    pendingExpression,  \* SimpleCharacterEditor: {char, exp} awaiting a character switch
    lastOp,             \* history: the operation that produced this state
    h                   \* harness of the pure-function specifications

vars == <<currentCharacter, characterData, loading, error, inflight,
          activeCompositions, manualOverrides, pendingExpression, lastOp, h>>

(***************************************************************************)
(* Text helpers                                                            *)
(***************************************************************************)
EmptyMap == [x \in {} |-> FALSE]

\* states[id] = v on a JS object
Put(m, k, v) == [x \in (DOMAIN m) \cup {k} |-> IF x = k THEN v ELSE m[x]]

\* Object.assign(a, b)
Assign(a, b) == [x \in (DOMAIN a) \cup (DOMAIN b) |-> IF x \in DOMAIN b THEN b[x] ELSE a[x]]

\* !!m[k]
Truthy(m, k) == k \in DOMAIN m /\ m[k]

Whitespace == {" ", "\n", "\t", "\r"}

RECURSIVE TrimStart(_)
TrimStart(s) == IF s # <<>> /\ Head(s) \in Whitespace THEN TrimStart(Tail(s)) ELSE s

RECURSIVE TrimEnd(_)
TrimEnd(s) ==
    IF s # <<>> /\ s[Len(s)] \in Whitespace THEN TrimEnd(SubSeq(s, 1, Len(s) - 1)) ELSE s

\* String.prototype.trim
Trim(s) == TrimEnd(TrimStart(s))

\* index of the first element of s that is in set cs, 0 when there is none
RECURSIVE FirstIndexFrom(_, _, _)
FirstIndexFrom(s, cs, i) ==
    IF i > Len(s) THEN 0
    ELSE IF s[i] \in cs THEN i
    ELSE FirstIndexFrom(s, cs, i + 1)

FirstIndex(s, cs) == FirstIndexFrom(s, cs, 1)

\* String.prototype.split(sep) for a one-character separator: every piece
RECURSIVE Split(_, _)
Split(s, sep) ==
    LET i == FirstIndex(s, {sep})
    IN IF i = 0 THEN <<s>>
       ELSE <<SubSeq(s, 1, i - 1)>> \o Split(SubSeq(s, i + 1, Len(s)), sep)

\* String.prototype.split(sep, limit): the first `limit` pieces of split(sep)
SplitLimit(s, sep, limit) ==
    LET all == Split(s, sep)
    IN IF Len(all) <= limit THEN all ELSE SubSeq(all, 1, limit)

\* Array.prototype.join(sep)
RECURSIVE Join(_, _)
Join(parts, sep) ==
    IF parts = <<>> THEN <<>>
    ELSE IF Len(parts) = 1 THEN parts[1]
    ELSE parts[1] \o <<sep>> \o Join(Tail(parts), sep)

\* Array.prototype.filter(Boolean) on strings: drops the empty ones
RECURSIVE NonEmpty(_)
NonEmpty(parts) ==
    IF parts = <<>> THEN <<>>
    ELSE IF Head(parts) = <<>> THEN NonEmpty(Tail(parts))
    ELSE <<Head(parts)>> \o NonEmpty(Tail(parts))

\* Array.prototype.map(p => p.trim())
TrimAll(parts) == [i \in 1..Len(parts) |-> Trim(parts[i])]

Range(s) == {s[i] : i \in 1..Len(s)}

\* new Set(array) / Set.add in turn: first occurrences, in order
RECURSIVE NewSet(_)
NewSet(a) ==
    IF a = <<>> THEN <<>>
    ELSE LET init == NewSet(SubSeq(a, 1, Len(a) - 1))
             x == a[Len(a)]
         IN IF x \in Range(init) THEN init ELSE Append(init, x)

\* Set.delete
RECURSIVE Without(_, _)
Without(s, x) ==
    IF s = <<>> THEN <<>>
    ELSE IF Head(s) = x THEN Without(Tail(s), x)
    ELSE <<Head(s)>> \o Without(Tail(s), x)

(***************************************************************************)
(* utils/parser                                                            *)
(***************************************************************************)
OpChars == {"+", "-", ">"}

\* parseLayerString that splits at the last of + - >
parseLayerStringAtLast(layerStr) ==
    LET ops == {i \in 1..Len(layerStr) : layerStr[i] \in OpChars}
    IN IF ops = {} THEN [group |-> <<>>, name |-> <<>>, op |-> "+"]
       ELSE LET opIndex == CHOOSE i \in ops : \A j \in ops : j <= i
            IN [group |-> SubSeq(layerStr, 1, opIndex - 1),
                name |-> SubSeq(layerStr, opIndex + 1, Len(layerStr)),
                op |-> layerStr[opIndex]]

\* parseLayerString: split at the first of + - >
parseLayerString(layerStr) ==
    LET opIndex == FirstIndex(layerStr, OpChars)
    IN IF opIndex = 0
       THEN IF layerStr # <<>> /\ layerStr[Len(layerStr)] = "-"
            THEN [group |-> SubSeq(layerStr, 1, Len(layerStr) - 1), name |-> <<>>, op |-> "-"]
            ELSE [group |-> <<>>, name |-> <<>>, op |-> "+"]
       ELSE [group |-> SubSeq(layerStr, 1, opIndex - 1),
             name |-> SubSeq(layerStr, opIndex + 1, Len(layerStr)),
             op |-> layerStr[opIndex]]

\* `${group}/${name}`
LayerId(group, name) == group \o <<"/">> \o name

\* layers.filter(l => l.group === group).forEach(l => states[l.id] = f(l))
RECURSIVE SetGroup(_, _, _, _, _)
SetGroup(states, layers, group, exclusive, name) ==
    IF layers = <<>> THEN states
    ELSE LET l == Head(layers)
             next == IF l.group = group
                     THEN Put(states, l.id, exclusive /\ l.name = name)
                     ELSE states
         IN SetGroup(next, Tail(layers), group, exclusive, name)

\* applyLayerString with an Exclusive op that turns the named layer on and leaves
\* its siblings as they are
applyLayerStringNoSiblings(layerStr, states, layers) ==
    LET p == parseLayerString(layerStr)
        layerId == LayerId(p.group, p.name)
    IN IF p.group = <<>> THEN states
       ELSE IF p.op = "-" /\ p.name = <<>> THEN SetGroup(states, layers, p.group, FALSE, <<>>)
       ELSE IF p.op = "+" \/ p.op = ">" THEN Put(states, layerId, TRUE)
       ELSE Put(states, layerId, FALSE)

\* applyLayerString without the group- case: group- falls through to the
\* per-layer branch and writes the id `group/`
applyLayerStringClearAsDisable(layerStr, states, layers) ==
    LET p == parseLayerString(layerStr)
        layerId == LayerId(p.group, p.name)
    IN IF p.group = <<>> THEN states
       ELSE IF p.op = "+" THEN Put(states, layerId, TRUE)
       ELSE IF p.op = "-" THEN Put(states, layerId, FALSE)
       ELSE SetGroup(states, layers, p.group, TRUE, p.name)

\* the body of applyLayerStrings' forEach: one layer string applied to states
applyLayerString(layerStr, states, layers) ==
    LET p == parseLayerString(layerStr)
        layerId == LayerId(p.group, p.name)
    IN IF p.group = <<>> THEN states
       ELSE IF p.op = "-" /\ p.name = <<>> THEN SetGroup(states, layers, p.group, FALSE, <<>>)
       ELSE IF p.op = "+" THEN Put(states, layerId, TRUE)
       ELSE IF p.op = "-" THEN Put(states, layerId, FALSE)
       ELSE IF p.op = ">" THEN SetGroup(states, layers, p.group, TRUE, p.name)
       ELSE states

RECURSIVE applyLayerStrings(_, _, _)
applyLayerStrings(layerStrings, states, layers) ==
    IF layerStrings = <<>> THEN states
    ELSE applyLayerStrings(Tail(layerStrings),
                           applyLayerString(Head(layerStrings), states, layers), layers)

Digits == <<"0", "1", "2", "3", "4", "5", "6", "7", "8", "9">>

DigitValue(c) == (CHOOSE i \in 1..Len(Digits) : Digits[i] = c) - 1

\* parseInt(s, 10) of an unsigned decimal prefix; "NaN" when there is none
RECURSIVE ParseDigits(_, _)
ParseDigits(s, acc) ==
    IF s = <<>> \/ Head(s) \notin Range(Digits) THEN acc
    ELSE ParseDigits(Tail(s), acc * Len(Digits) + DigitValue(Head(s)))

parseInt(s) ==
    LET t == TrimStart(s)
    IN IF t = <<>> \/ Head(t) \notin Range(Digits)
       THEN [nan |-> TRUE, n |-> 0]
       ELSE [nan |-> FALSE, n |-> ParseDigits(t, 0)]

\* the comparator (a, b) => a.order - b.order is positive
After(a, b) == ~a.order.nan /\ ~b.order.nan /\ a.order.n > b.order.n

\* Array.prototype.sort((a, b) => a.order - b.order): stable insertion
RECURSIVE InsertByOrder(_, _)
InsertByOrder(sorted, l) ==
    IF sorted = <<>> THEN <<l>>
    ELSE IF After(Head(sorted), l) THEN <<l>> \o sorted
    ELSE <<Head(sorted)>> \o InsertByOrder(Tail(sorted), l)

RECURSIVE SortByOrder(_)
SortByOrder(ls) ==
    IF ls = <<>> THEN <<>>
    ELSE InsertByOrder(SortByOrder(SubSeq(ls, 1, Len(ls) - 1)), ls[Len(ls)])

\* one line of info.txt: group:name:order, dropped when a field is missing
RECURSIVE InfoLines(_)
InfoLines(lines) ==
    IF lines = <<>> THEN <<>>
    ELSE LET f == Split(Head(lines), ":")
             rest == InfoLines(Tail(lines))
         IN IF Len(f) < 3 \/ f[1] = <<>> \/ f[2] = <<>> \/ f[3] = <<>> THEN rest
            ELSE <<[group |-> Trim(f[1]), name |-> Trim(f[2]), order |-> parseInt(f[3]),
                    id |-> LayerId(Trim(f[1]), Trim(f[2]))]>> \o rest

parseInfo(text) == SortByOrder(InfoLines(Split(Trim(text), "\n")))

\* parseCompositions: name:part,part,...; a later line of the same name wins
RECURSIVE CompositionLines(_, _)
CompositionLines(lines, compositions) ==
    IF lines = <<>> THEN compositions
    ELSE LET f == SplitLimit(Head(lines), ":", 2)
         IN IF Len(f) < 2 \/ f[1] = <<>> \/ f[2] = <<>>
            THEN CompositionLines(Tail(lines), compositions)
            ELSE CompositionLines(Tail(lines),
                     Put(compositions, Trim(f[1]), NonEmpty(TrimAll(Split(f[2], ",")))))

parseCompositions(text) == CompositionLines(Split(Trim(text), "\n"), EmptyMap)

\* the items of part1 that parse with a group (layer strings) or not (preset names)
RECURSIVE Part1Items(_, _)
Part1Items(items, wantLayer) ==
    IF items = <<>> THEN <<>>
    ELSE LET item == Head(items)
             rest == Part1Items(Tail(items), wantLayer)
         IN IF item = <<>> THEN rest
            ELSE IF (parseLayerString(item).group # <<>>) = wantLayer THEN <<item>> \o rest
            ELSE rest

\* parseDefaultComposition that lists part1's layer strings before part2's
parseDefaultCompositionHeadFirst(text) ==
    LET f == SplitLimit(Trim(text), ":", 2)
        part1 == f[1]
        part2 == IF Len(f) >= 2 THEN f[2] ELSE <<>>
        items == IF part1 # <<>> THEN TrimAll(Split(part1, ",")) ELSE <<>>
        part2LayerStrings == IF part2 # <<>> THEN NonEmpty(TrimAll(Split(part2, ","))) ELSE <<>>
    IN [layers |-> Part1Items(items, TRUE) \o part2LayerStrings,
        presets |-> Part1Items(items, FALSE)]

parseDefaultComposition(text) ==
    LET f == SplitLimit(Trim(text), ":", 2)
        part1 == f[1]
        part2 == IF Len(f) >= 2 THEN f[2] ELSE <<>>
        items == IF part1 # <<>> THEN TrimAll(Split(part1, ",")) ELSE <<>>
        part2LayerStrings == IF part2 # <<>> THEN NonEmpty(TrimAll(Split(part2, ","))) ELSE <<>>
    IN [layers |-> part2LayerStrings \o Part1Items(items, TRUE),
        presets |-> Part1Items(items, FALSE)]

(***************************************************************************)
(* The character files served to fetch (info.txt, composition.txt,         *)
(* default_composition.txt), two of the CHARACTERS                         *)
(***************************************************************************)
DefaultCharacter == "Sherry"

Characters == {"Sherry", "Ema"}

\* E:o:1 / E:c:2 / M:g:3
SherryInfo ==
    <<"E", ":", "o", ":", "1", "\n", "E", ":", "c", ":", "2", "\n", "M", ":", "g", ":", "3", "\n">>

\* B:E>c / Default:B,E+o,M-
SherryCompositions ==
    <<"B", ":", "E", ">", "c", "\n",
      "D", "e", "f", "a", "u", "l", "t", ":", "B", ",", "E", "+", "o", ",", "M", "-", "\n">>

\* Default,M+g:E+o
SherryDefault ==
    <<"D", "e", "f", "a", "u", "l", "t", ",", "M", "+", "g", ":", "E", "+", "o", "\n">>

\* E:c:1 / E:o:2
EmaInfo == <<"E", ":", "c", ":", "1", "\n", "E", ":", "o", ":", "2", "\n">>

\* B:E+c
EmaCompositions == <<"B", ":", "E", "+", "c", "\n">>

\* :E>o
EmaDefault == <<":", "E", ">", "o", "\n">>

\* the three texts Promise.all resolves to for ./name/...
Fetched(name) ==
    IF name = "Sherry"
    THEN [info |-> SherryInfo, comp |-> SherryCompositions, def |-> SherryDefault]
    ELSE [info |-> EmaInfo, comp |-> EmaCompositions, def |-> EmaDefault]

(***************************************************************************)
(* useCharacterData                                                        *)
(***************************************************************************)
\* characterData === null
NullData ==
    [isNull |-> TRUE, name |-> "", layers |-> <<>>, compositions |-> EmptyMap,
     defaultComposition |-> [layers |-> <<>>, presets |-> <<>>]]

\* the object handed to setCharacterData
NewCharacterData(name, infoText, compText, defaultCompText) ==
    [isNull |-> FALSE, name |-> name,
     layers |-> parseInfo(infoText),
     compositions |-> parseCompositions(compText),
     defaultComposition |-> parseDefaultComposition(defaultCompText)]

\* what loadCharacter builds from each character's files
SherryData == NewCharacterData("Sherry", SherryInfo, SherryCompositions, SherryDefault)

EmaData == NewCharacterData("Ema", EmaInfo, EmaCompositions, EmaDefault)

LoadedData(name) == IF name = "Sherry" THEN SherryData ELSE EmaData

(***************************************************************************)
(* useCharacterState: resolution                                           *)
(***************************************************************************)
\* depth of nested applyCompositionRecursive calls the engine's stack holds
MaxCallDepth == 5

Overflow == [ok |-> FALSE, states |-> EmptyMap]

\* property names every object literal inherits from Object.prototype (two of
\* them): toString, constructor
ObjectPrototypeKeys ==
    {<<"t", "o", "S", "t", "r", "i", "n", "g">>,
     <<"c", "o", "n", "s", "t", "r", "u", "c", "t", "o", "r">>}

\* HasEntry that takes a key for a composition only when it does not parse as a
\* layer string
HasEntryUnlessOp(compositions, key) ==
    /\ key \in DOMAIN compositions \/ key \in ObjectPrototypeKeys
    /\ parseLayerString(key).group = <<>>

\* compositions[key] is truthy: an own entry (always an array) or an inherited
\* property (a function)
HasEntry(compositions, key) == key \in DOMAIN compositions \/ key \in ObjectPrototypeKeys

\* parts.forEach is not a function: TypeError
NotAnArray == [ok |-> FALSE, states |-> EmptyMap]

RECURSIVE applyCompositionRecursive(_, _, _, _)
RECURSIVE ApplyParts(_, _, _, _)

\* applyCompositionRecursive(compNames, targetStates), `depth` frames deep;
\* ok = FALSE: an exception escaped the call (the call stack overflowed:
\* RangeError; forEach called on an inherited property: TypeError)
applyCompositionRecursive(data, compNames, r, depth) ==
    IF ~r.ok THEN r
    ELSE IF depth > MaxCallDepth THEN Overflow
    ELSE IF compNames = <<>> THEN r
    ELSE LET compName == Head(compNames)
             after == IF compName \in DOMAIN data.compositions
                      THEN ApplyParts(data, data.compositions[compName], r, depth)
                      ELSE IF HasEntry(data.compositions, compName) THEN NotAnArray
                      ELSE r
         IN applyCompositionRecursive(data, Tail(compNames), after, depth)

\* parts.forEach(part => ...)
ApplyParts(data, parts, r, depth) ==
    IF ~r.ok \/ parts = <<>> THEN r
    ELSE LET part == Head(parts)
             after == IF HasEntry(data.compositions, part)
                      THEN applyCompositionRecursive(data, <<part>>, r, depth + 1)
                      ELSE [ok |-> TRUE,
                            states |-> applyLayerString(part, r.states, data.layers)]
         IN ApplyParts(data, Tail(parts), after, depth)

\* PresetStates with the baseline applied after the active compositions
PresetStatesBaselineLast(data, active) ==
    LET r == applyCompositionRecursive(data, active, [ok |-> TRUE, states |-> EmptyMap], 1)
    IN IF r.ok
       THEN [ok |-> TRUE,
             states |-> applyLayerStrings(data.defaultComposition.layers, r.states, data.layers)]
       ELSE r

\* steps 1 and 2 of calculateLayerStates: the baseline, then the active compositions
PresetStates(data, active) ==
    applyCompositionRecursive(data, active,
        [ok |-> TRUE,
         states |-> applyLayerStrings(data.defaultComposition.layers, EmptyMap, data.layers)],
        1)

\* calculateLayerStates with the overrides assigned under the computed states
calculateLayerStatesOverridesFirst(data, active, overrides) ==
    IF data.isNull THEN [ok |-> TRUE, states |-> EmptyMap]
    ELSE LET r == PresetStates(data, active)
         IN IF r.ok THEN [ok |-> TRUE, states |-> Assign(overrides, r.states)] ELSE r

\* calculateLayerStates; ok = FALSE when the expansion threw
calculateLayerStates(data, active, overrides) ==
    IF data.isNull THEN [ok |-> TRUE, states |-> EmptyMap]
    ELSE LET r == PresetStates(data, active)
         IN IF r.ok THEN [ok |-> TRUE, states |-> Assign(r.states, overrides)] ELSE r

currentStates == calculateLayerStates(characterData, activeCompositions, manualOverrides).states

(***************************************************************************)
(* SimpleCharacterEditor.generateExpression                                *)
(***************************************************************************)
\* the characters of the model's texts, in UTF-16 code unit order
CodeOrder ==
    <<"\t", "\n", "\r", " ", "+", ",", "-", "/",
      "0", "1", "2", "3", "4", "5", "6", "7", "8", "9", ":", ">",
      "A", "B", "D", "E", "M", "P", "Q", "R", "S",
      "a", "c", "e", "f", "g", "h", "i", "l", "n", "o", "r", "s", "t", "u", "x", "y", "z">>

CharCode(c) == CHOOSE i \in 1..Len(CodeOrder) : CodeOrder[i] = c

\* a < b as Array.prototype.sort() compares strings
RECURSIVE StrLess(_, _)
StrLess(a, b) ==
    IF b = <<>> THEN FALSE
    ELSE IF a = <<>> THEN TRUE
    ELSE IF Head(a) = Head(b) THEN StrLess(Tail(a), Tail(b))
    ELSE CharCode(Head(a)) < CharCode(Head(b))

RECURSIVE InsertStr(_, _)
InsertStr(sorted, x) ==
    IF sorted = <<>> THEN <<x>>
    ELSE IF StrLess(x, Head(sorted)) THEN <<x>> \o sorted
    ELSE <<Head(sorted)>> \o InsertStr(Tail(sorted), x)

\* sort() that leaves the array in the order it was filled
SortStringsKeep(a) == a

\* Array.prototype.sort() on strings
RECURSIVE SortStrings(_)
SortStrings(a) ==
    IF a = <<>> THEN <<>>
    ELSE InsertStr(SortStrings(SubSeq(a, 1, Len(a) - 1)), a[Len(a)])

\* the catalog's layer ids
LayerIds(layers) == {layers[i].id : i \in 1..Len(layers)}

\* requiredOverrides: the catalog layers whose final state differs from the preset state
RequiredOverrides(data, final, presetOnly) ==
    LET allLayerIds == (DOMAIN final) \cup (DOMAIN presetOnly)
        diff == {id \in allLayerIds :
                    /\ Truthy(final, id) # Truthy(presetOnly, id)
                    /\ id \in LayerIds(data.layers)}
    IN [id \in diff |-> Truthy(final, id)]

\* overriddenGroups holding every group of the catalog
OverriddenGroupsAll(data, required) == {data.layers[i].group : i \in 1..Len(data.layers)}

\* overriddenGroups
OverriddenGroups(data, required) ==
    {data.layers[i].group : i \in {j \in 1..Len(data.layers) : data.layers[j].id \in DOMAIN required}}

\* the entries of the map that are on and whose id starts with the group's name,
\* as layers, whether the catalog has them or not
RECURSIVE ActiveLayersInGroupOfMap(_, _, _)
ActiveLayersInGroupOfMap(layers, groupName, final) ==
    LET ids == {id \in DOMAIN final :
                   /\ final[id]
                   /\ Len(id) > Len(groupName)
                   /\ SubSeq(id, 1, Len(groupName) + 1) = groupName \o <<"/">>}
    IN IF ids = {} THEN <<>>
       ELSE LET id == CHOOSE x \in ids : TRUE
            IN <<[group |-> groupName, name |-> SubSeq(id, Len(groupName) + 2, Len(id)),
                  id |-> id, order |-> [nan |-> TRUE, n |-> 0]]>>
               \o ActiveLayersInGroupOfMap(layers, groupName, [x \in (DOMAIN final) \ {id} |-> final[x]])

\* characterData.layers.filter(l => l.group === groupName && currentStates[l.id])
RECURSIVE ActiveLayersInGroup(_, _, _)
ActiveLayersInGroup(layers, groupName, final) ==
    IF layers = <<>> THEN <<>>
    ELSE LET l == Head(layers)
             rest == ActiveLayersInGroup(Tail(layers), groupName, final)
         IN IF l.group = groupName /\ Truthy(final, l.id) THEN <<l>> \o rest ELSE rest

\* the per-layer tokens of a group with several active layers
RECURSIVE PerLayerTokens(_, _, _)
PerLayerTokens(layers, groupName, required) ==
    IF layers = <<>> THEN <<>>
    ELSE LET l == Head(layers)
             rest == PerLayerTokens(Tail(layers), groupName, required)
         IN IF l.group = groupName /\ l.id \in DOMAIN required
            THEN <<l.group \o <<IF required[l.id] THEN "+" ELSE "-">> \o l.name>> \o rest
            ELSE rest

\* GroupTokens without the group>name form for a single active layer
GroupTokensPerLayer(data, groupName, final, required) ==
    IF Len(ActiveLayersInGroup(data.layers, groupName, final)) = 0
    THEN <<groupName \o <<"-">> >>
    ELSE PerLayerTokens(data.layers, groupName, required)

\* the tokens pushed for one overridden group
GroupTokens(data, groupName, final, required) ==
    LET activeLayersInGroup == ActiveLayersInGroup(data.layers, groupName, final)
    IN IF Len(activeLayersInGroup) = 0 THEN <<groupName \o <<"-">> >>
       ELSE IF Len(activeLayersInGroup) = 1
       THEN <<activeLayersInGroup[1].group \o <<">">> \o activeLayersInGroup[1].name>>
       ELSE PerLayerTokens(data.layers, groupName, required)

RECURSIVE TokensOfGroups(_, _, _, _)
TokensOfGroups(data, groups, final, required) ==
    IF groups = {} THEN <<>>
    ELSE LET g == CHOOSE x \in groups : TRUE
         IN GroupTokens(data, g, final, required)
            \o TokensOfGroups(data, groups \ {g}, final, required)

\* overrideExpressions, before the sort
OverrideExpressions(data, active, final) ==
    LET required == RequiredOverrides(data, final, PresetStates(data, active).states)
    IN TokensOfGroups(data, OverriddenGroups(data, required), final, required)

DefaultText == <<"D", "e", "f", "a", "u", "l", "t">>

\* generateExpression that returns the joined text as it is, empty or not
generateExpressionNoFallback(data, active, final) ==
    IF data.isNull THEN DefaultText
    ELSE LET overrideExpressions == OverrideExpressions(data, active, final)
             presets == Join(active, ",")
         IN IF Len(overrideExpressions) > 0
            THEN presets \o (IF presets # <<>> THEN <<",">> ELSE <<>>)
                 \o Join(SortStrings(overrideExpressions), ",")
            ELSE presets

\* generateExpression() over (characterData, activeCompositions, currentStates)
generateExpression(data, active, final) ==
    IF data.isNull THEN DefaultText
    ELSE LET overrideExpressions == OverrideExpressions(data, active, final)
             presets == Join(active, ",")
             expression ==
                 IF Len(overrideExpressions) > 0
                 THEN presets \o (IF presets # <<>> THEN <<",">> ELSE <<>>)
                      \o Join(SortStrings(overrideExpressions), ",")
                 ELSE presets
         IN IF expression # <<>> THEN expression ELSE DefaultText

(***************************************************************************)
(* useCharacterState: the editing operations                               *)
(***************************************************************************)
\* ExpressionPart with a group>name that turns the named layer on and leaves its
\* siblings out of the overrides
ExpressionPartNoSiblings(data, part, acc) ==
    IF HasEntry(data.compositions, part)
    THEN [acc EXCEPT !.active = NewSet(Append(acc.active, part))]
    ELSE LET p == parseLayerString(part)
         IN IF p.group = <<>> THEN acc
            ELSE IF p.op = "-" /\ p.name = <<>>
            THEN [acc EXCEPT !.overrides = SetGroup(acc.overrides, data.layers, p.group, FALSE, <<>>)]
            ELSE IF p.op = "-"
            THEN [acc EXCEPT !.overrides = Put(acc.overrides, LayerId(p.group, p.name), FALSE)]
            ELSE [acc EXCEPT !.overrides = Put(acc.overrides, LayerId(p.group, p.name), TRUE)]

\* ExpressionPart where a composition's name discards the overrides collected
\* from the items before it
ExpressionPartNameClears(data, part, acc) ==
    IF HasEntry(data.compositions, part)
    THEN [active |-> NewSet(Append(acc.active, part)), overrides |-> EmptyMap]
    ELSE LET p == parseLayerString(part)
         IN IF p.group = <<>> THEN acc
            ELSE IF p.op = "-" /\ p.name = <<>>
            THEN [acc EXCEPT !.overrides = SetGroup(acc.overrides, data.layers, p.group, FALSE, <<>>)]
            ELSE IF p.op = ">"
            THEN [acc EXCEPT !.overrides = SetGroup(acc.overrides, data.layers, p.group, TRUE, p.name)]
            ELSE IF p.op = "+"
            THEN [acc EXCEPT !.overrides = Put(acc.overrides, LayerId(p.group, p.name), TRUE)]
            ELSE [acc EXCEPT !.overrides = Put(acc.overrides, LayerId(p.group, p.name), FALSE)]

\* one part of applyExpression's forEach, on (newActiveCompositions, newManualOverrides)
ExpressionPart(data, part, acc) ==
    IF HasEntry(data.compositions, part)
    THEN [acc EXCEPT !.active = NewSet(Append(acc.active, part))]
    ELSE LET p == parseLayerString(part)
         IN IF p.group = <<>> THEN acc
            ELSE IF p.op = "-" /\ p.name = <<>>
            THEN [acc EXCEPT !.overrides = SetGroup(acc.overrides, data.layers, p.group, FALSE, <<>>)]
            ELSE IF p.op = ">"
            THEN [acc EXCEPT !.overrides = SetGroup(acc.overrides, data.layers, p.group, TRUE, p.name)]
            ELSE IF p.op = "+"
            THEN [acc EXCEPT !.overrides = Put(acc.overrides, LayerId(p.group, p.name), TRUE)]
            ELSE IF p.op = "-"
            THEN [acc EXCEPT !.overrides = Put(acc.overrides, LayerId(p.group, p.name), FALSE)]
            ELSE acc

RECURSIVE ExpressionParts(_, _, _)
ExpressionParts(data, parts, acc) ==
    IF parts = <<>> THEN acc
    ELSE ExpressionParts(data, Tail(parts), ExpressionPart(data, Head(parts), acc))

\* applyExpression(expression): the sets handed to setActiveCompositions and
\* setManualOverrides (with character data loaded)
applyExpression(data, expression) ==
    ExpressionParts(data, NonEmpty(TrimAll(Split(expression, ","))),
                    [active |-> <<>>, overrides |-> EmptyMap])

\* toggleComposition's updater without the delete branch
toggleCompositionAddOnly(prev, name) == NewSet(Append(prev, name))

\* toggleComposition's updater
toggleComposition(prev, name) ==
    IF name \in Range(prev) THEN Without(prev, name) ELSE Append(prev, name)

\* toggleLayer's updater negating the override's own value
toggleLayerOfOverride(prev, states, layerId) == Put(prev, layerId, ~Truthy(prev, layerId))

\* toggleLayer's updater
toggleLayer(prev, states, layerId) == Put(prev, layerId, ~Truthy(states, layerId))

\* clearGroupOverrides that removes the group's entries from the overrides
clearGroupOverridesRemove(data, overrides, groupName) ==
    [id \in (DOMAIN overrides) \ {data.layers[i].id : i \in {j \in 1..Len(data.layers) :
                                        data.layers[j].group = groupName}} |-> overrides[id]]

\* clearGroupOverrides' newOverrides
clearGroupOverrides(data, overrides, groupName) ==
    SetGroup(overrides, data.layers, groupName, FALSE, <<>>)

\* resetToDefault that forgets the presets
resetActiveEmpty(data) == <<>>

\* resetToDefault's new active set
resetActive(data) == NewSet(data.defaultComposition.presets)

(***************************************************************************)
(* The editor as a state machine: one action per handler                   *)
(***************************************************************************)
\* loadCharacter calls that may be awaiting their fetches at once
MaxInflight == 2

\* what the user types or pastes into the expression dialog
\* B,E+o
ExprPoseAndLayer == <<"B", ",", "E", "+", "o">>
\* M-, Default
ExprClearAndPose == <<"M", "-", ",", " ", "D", "e", "f", "a", "u", "l", "t">>
\* E>c
ExprExclusive == <<"E", ">", "c">>

TypedExpressions == {ExprPoseAndLayer, ExprClearAndPose, ExprExclusive}

PastedPoses == {ExprPoseAndLayer}

NoPending == [set |-> FALSE, char |-> "", exp |-> <<>>]

NoHarness == [spec |-> "editor"]

\* the text shown in the expression box, prefilled into the paste dialog
shownExpression == generateExpression(characterData, activeCompositions, currentStates)

\* the effect on [pendingExpression, loading, characterData, applyExpression] fires
PendingFires(pending, loadingSeen, data) ==
    pending.set /\ ~loadingSeen /\ ~data.isNull /\ data.name = pending.char

Init ==
    /\ currentCharacter = DefaultCharacter
    /\ characterData = NullData
    /\ loading = TRUE
    /\ error = FALSE
    /\ inflight = <<DefaultCharacter>>
    /\ activeCompositions = <<>>
    /\ manualOverrides = EmptyMap
    /\ pendingExpression = NoPending
    /\ lastOp = "mount"
    /\ h = NoHarness

\* setCurrentCharacter(c) followed by the effect's loadCharacter(c)
StartLoad(c) ==
    /\ Len(inflight) < MaxInflight
    /\ currentCharacter' = c
    /\ loading' = TRUE
    /\ error' = FALSE
    /\ inflight' = Append(inflight, c)

\* the character <select>, disabled while loading
SelectCharacter(c) ==
    /\ ~error /\ ~loading
    /\ c # currentCharacter
    /\ StartLoad(c)
    /\ lastOp' = "selectCharacter"
    /\ UNCHANGED <<characterData, activeCompositions, manualOverrides, pendingExpression, h>>

\* the error card's button: setCurrentCharacter('Sherry')
RetryDefault ==
    /\ error
    /\ currentCharacter # DefaultCharacter
    /\ StartLoad(DefaultCharacter)
    /\ lastOp' = "retryDefault"
    /\ UNCHANGED <<characterData, activeCompositions, manualOverrides, pendingExpression, h>>

\* the paste dialog, confirmed for another character: setPendingExpression and
\* setCurrentCharacter, then the effects of that render
PasteSwitch(c, exp) ==
    /\ ~error
    /\ c # currentCharacter
    /\ StartLoad(c)
    /\ LET p == [set |-> TRUE, char |-> c, exp |-> exp]
       IN IF PendingFires(p, loading, characterData)
          THEN LET a == applyExpression(characterData, exp)
               IN /\ activeCompositions' = a.active
                  /\ manualOverrides' = a.overrides
                  /\ pendingExpression' = NoPending
          ELSE /\ pendingExpression' = p
               /\ UNCHANGED <<activeCompositions, manualOverrides>>
    /\ lastOp' = "pasteSwitch"
    /\ UNCHANGED <<characterData, h>>

\* LoadResolve that updates the loaded character in place, keeping the
\* compositions already loaded
LoadResolveInPlace(i) ==
    /\ i \in 1..Len(inflight)
    /\ LET d == LoadedData(inflight[i])
       IN /\ characterData' = IF characterData.isNull THEN d
                              ELSE [d EXCEPT !.compositions = characterData.compositions]
          /\ UNCHANGED <<activeCompositions, manualOverrides, pendingExpression>>
    /\ loading' = FALSE
    /\ inflight' = [j \in 1..(Len(inflight) - 1) |-> IF j < i THEN inflight[j] ELSE inflight[j + 1]]
    /\ lastOp' = "loadResolve"
    /\ UNCHANGED <<currentCharacter, error, h>>

\* await Promise.all(...) fulfils for the i-th pending loadCharacter call
LoadResolve(i) ==
    /\ i \in 1..Len(inflight)
    /\ LET d == LoadedData(inflight[i])
       IN /\ characterData' = d
          /\ IF PendingFires(pendingExpression, FALSE, d)
             THEN LET a == applyExpression(d, pendingExpression.exp)
                  IN /\ activeCompositions' = a.active
                     /\ manualOverrides' = a.overrides
                     /\ pendingExpression' = NoPending
             ELSE UNCHANGED <<activeCompositions, manualOverrides, pendingExpression>>
    /\ loading' = FALSE
    /\ inflight' = [j \in 1..(Len(inflight) - 1) |-> IF j < i THEN inflight[j] ELSE inflight[j + 1]]
    /\ lastOp' = "loadResolve"
    /\ UNCHANGED <<currentCharacter, error, h>>

\* a fetch rejects: the catch and finally blocks
LoadReject(i) ==
    /\ i \in 1..Len(inflight)
    /\ characterData' = NullData
    /\ error' = TRUE
    /\ loading' = FALSE
    /\ inflight' = [j \in 1..(Len(inflight) - 1) |-> IF j < i THEN inflight[j] ELSE inflight[j + 1]]
    /\ lastOp' = "loadReject"
    /\ UNCHANGED <<currentCharacter, activeCompositions, manualOverrides, pendingExpression, h>>

\* a pose button
ToggleComposition(name) ==
    /\ ~error /\ ~characterData.isNull
    /\ name \in DOMAIN characterData.compositions
    /\ activeCompositions' = toggleComposition(activeCompositions, name)
    /\ lastOp' = "toggleComposition"
    /\ UNCHANGED <<currentCharacter, characterData, loading, error, inflight,
                   manualOverrides, pendingExpression, h>>

\* a layer button
ToggleLayer(layerId) ==
    /\ ~error /\ ~characterData.isNull
    /\ layerId \in LayerIds(characterData.layers)
    /\ manualOverrides' = toggleLayer(manualOverrides, currentStates, layerId)
    /\ lastOp' = "toggleLayer"
    /\ UNCHANGED <<currentCharacter, characterData, loading, error, inflight,
                   activeCompositions, pendingExpression, h>>

\* a group's clear button
ClearGroupOverrides(groupName) ==
    /\ ~error /\ ~characterData.isNull
    /\ groupName \in {characterData.layers[i].group : i \in 1..Len(characterData.layers)}
    /\ manualOverrides' = clearGroupOverrides(characterData, manualOverrides, groupName)
    /\ lastOp' = "clearGroupOverrides"
    /\ UNCHANGED <<currentCharacter, characterData, loading, error, inflight,
                   activeCompositions, pendingExpression, h>>

\* the reset button
ResetToDefault ==
    /\ ~error
    /\ IF characterData.isNull
       THEN UNCHANGED <<activeCompositions, manualOverrides>>
       ELSE /\ activeCompositions' = resetActive(characterData)
            /\ manualOverrides' = EmptyMap
    /\ lastOp' = "resetToDefault"
    /\ UNCHANGED <<currentCharacter, characterData, loading, error, inflight,
                   pendingExpression, h>>

\* the paste dialog applied to the current character
ApplyExpression(expression) ==
    /\ ~error
    /\ IF characterData.isNull
       THEN UNCHANGED <<activeCompositions, manualOverrides>>
       ELSE LET a == applyExpression(characterData, expression)
            IN /\ activeCompositions' = a.active
               /\ manualOverrides' = a.overrides
    /\ lastOp' = "applyExpression"
    /\ UNCHANGED <<currentCharacter, characterData, loading, error, inflight,
                   pendingExpression, h>>

Next ==
    \/ \E c \in Characters : SelectCharacter(c)
    \/ RetryDefault
    \/ \E c \in Characters, exp \in PastedPoses : PasteSwitch(c, exp)
    \/ \E i \in 1..MaxInflight : LoadResolve(i)
    \/ \E i \in 1..MaxInflight : LoadReject(i)
    \/ \E name \in DOMAIN characterData.compositions : ToggleComposition(name)
    \/ \E layerId \in LayerIds(characterData.layers) : ToggleLayer(layerId)
    \/ \E i \in 1..Len(characterData.layers) : ClearGroupOverrides(characterData.layers[i].group)
    \/ ResetToDefault
    \/ \E expression \in TypedExpressions \cup {shownExpression} : ApplyExpression(expression)

Spec == Init /\ [][Next]_vars

(***************************************************************************)
(* applyLayerStrings on its own: one layer string applied to any map       *)
(***************************************************************************)
\* layer ids a map may hold: Sherry's catalog and one id outside it
OpsIds == LayerIds(SherryData.layers) \cup {<<"E", "/", "z">>}

\* every LayerState over OpsIds
OpsMaps == UNION {[d -> BOOLEAN] : d \in SUBSET OpsIds}

\* layer strings: each operator on catalog layers, on a name and on a group the
\* catalog lacks, and strings without a group
OpsLayerStrings ==
    {<<"E", "+", "o">>, <<"E", "-", "o">>, <<"E", ">", "o">>, <<"E", ">", "c">>,
     <<"E", "+", "z">>, <<"E", ">", "z">>, <<"E", ">">>, <<"E", "-">>,
     <<"M", ">", "g">>, <<"M", "-", "g">>, <<"M", "-">>,
     <<"Q", ">", "g">>, <<"Q", "-">>, <<"B">>, <<">", "o">>, <<"-">>}

InitOps ==
    /\ currentCharacter = DefaultCharacter
    /\ characterData = SherryData
    /\ loading = FALSE
    /\ error = FALSE
    /\ inflight = <<>>
    /\ activeCompositions = <<>>
    /\ manualOverrides = EmptyMap
    /\ pendingExpression = NoPending
    /\ lastOp = "none"
    /\ h \in {[spec |-> "ops", pc |-> "call", states |-> m, layerStr |-> t, out |-> EmptyMap] :
                 m \in OpsMaps, t \in OpsLayerStrings}

\* applyLayerStrings([layerStr], states, layers)
ApplyOp ==
    /\ h.pc = "call"
    /\ h' = [h EXCEPT !.pc = "done",
                      !.out = applyLayerStrings(<<h.layerStr>>, h.states, characterData.layers)]
    /\ UNCHANGED <<currentCharacter, characterData, loading, error, inflight,
                   activeCompositions, manualOverrides, pendingExpression, lastOp>>

NextOps == ApplyOp

SpecOps == InitOps /\ [][NextOps]_vars

(***************************************************************************)
(* calculateLayerStates on its own, over registries with and without       *)
(* cycles                                                                  *)
(***************************************************************************)
\* A:B,E+o / B:E>c
RegistryNested ==
    <<"A", ":", "B", ",", "E", "+", "o", "\n", "B", ":", "E", ">", "c", "\n">>

\* A:E+o,A / B:E>c
RegistrySelf ==
    <<"A", ":", "E", "+", "o", ",", "A", "\n", "B", ":", "E", ">", "c", "\n">>

\* A:E+o,B / B:E>c,A
RegistryMutual ==
    <<"A", ":", "E", "+", "o", ",", "B", "\n", "B", ":", "E", ">", "c", ",", "A", "\n">>

ResolveRegistries == {RegistryNested, RegistrySelf, RegistryMutual}

ResolveActives ==
    {<<>>, <<<<"A">>>>, <<<<"B">>>>, <<<<"A">>, <<"B">>>>, <<<<"B">>, <<"A">>>>}

ResolveOverrides == UNION {[d -> BOOLEAN] : d \in SUBSET {<<"E", "/", "o">>, <<"E", "/", "c">>}}

InitResolve ==
    /\ currentCharacter = DefaultCharacter
    /\ characterData \in {NewCharacterData("Sherry", SherryInfo, r, SherryDefault) :
                             r \in ResolveRegistries}
    /\ loading = FALSE
    /\ error = FALSE
    /\ inflight = <<>>
    /\ activeCompositions \in ResolveActives
    /\ manualOverrides \in ResolveOverrides
    /\ pendingExpression = NoPending
    /\ lastOp = "none"
    /\ h = [spec |-> "resolve", pc |-> "call", result |-> [ok |-> TRUE, states |-> EmptyMap]]

\* calculateLayerStates() returns, or the engine throws RangeError
Resolve ==
    /\ h.pc = "call"
    /\ h' = [h EXCEPT !.pc = "done",
                      !.result = calculateLayerStates(characterData, activeCompositions,
                                                      manualOverrides)]
    /\ UNCHANGED <<currentCharacter, characterData, loading, error, inflight,
                   activeCompositions, manualOverrides, pendingExpression, lastOp>>

NextResolve == Resolve

SpecResolve == InitResolve /\ [][NextResolve]_vars

(***************************************************************************)
(* generateExpression on its own, over a catalog with a three-layer group  *)
(***************************************************************************)
\* A:x:1 / A:y:2 / A:z:3 / M:g:4
HiroInfo ==
    <<"A", ":", "x", ":", "1", "\n", "A", ":", "y", ":", "2", "\n",
      "A", ":", "z", ":", "3", "\n", "M", ":", "g", ":", "4", "\n">>

\* P:A>x / R:A+y
HiroCompositions == <<"P", ":", "A", ">", "x", "\n", "R", ":", "A", "+", "y", "\n">>

\* :M+g
HiroDefault == <<":", "M", "+", "g", "\n">>

HiroData == NewCharacterData("Hiro", HiroInfo, HiroCompositions, HiroDefault)

SynthActives ==
    {<<>>, <<<<"P">>>>, <<<<"R">>>>, <<<<"P">>, <<"R">>>>, <<<<"R">>, <<"P">>>>}

SynthOverrides == UNION {[d -> BOOLEAN] : d \in SUBSET LayerIds(HiroData.layers)}

InitSynth ==
    /\ currentCharacter = "Hiro"
    /\ characterData = HiroData
    /\ loading = FALSE
    /\ error = FALSE
    /\ inflight = <<>>
    /\ activeCompositions \in SynthActives
    /\ manualOverrides \in SynthOverrides
    /\ pendingExpression = NoPending
    /\ lastOp = "none"
    /\ h = [spec |-> "synth", pc |-> "call", out |-> <<>>]

\* generateExpression() on the current render's state
Synthesize ==
    /\ h.pc = "call"
    /\ h' = [h EXCEPT !.pc = "done", !.out = shownExpression]
    /\ UNCHANGED <<currentCharacter, characterData, loading, error, inflight,
                   activeCompositions, manualOverrides, pendingExpression, lastOp>>

NextSynth == Synthesize

SpecSynth == InitSynth /\ [][NextSynth]_vars

(***************************************************************************)
(* calculateLayerStates called twice in a row on the same render's inputs  *)
(***************************************************************************)
\* Object.assign that writes the target's entries into its source as well
ObjectAssignSourceMerged(target, source) == Assign(source, target)

\* the source object after Object.assign(target, source): left as it was
ObjectAssignSource(target, source) == source

PureData ==
    {SherryData, EmaData, NewCharacterData("Sherry", SherryInfo, RegistryNested, SherryDefault)}

PureActives ==
    {<<>>, <<<<"A">>>>, <<<<"B">>>>, <<<<"A">>, <<"B">>>>, <<<<"B">>, <<"A">>>>,
     <<<<"B">>, DefaultText>>}

InitPure ==
    /\ currentCharacter = DefaultCharacter
    /\ characterData \in PureData
    /\ loading = FALSE
    /\ error = FALSE
    /\ inflight = <<>>
    /\ activeCompositions \in PureActives
    /\ manualOverrides \in ResolveOverrides
    /\ pendingExpression = NoPending
    /\ lastOp = "none"
    /\ h = [spec |-> "pure", pc |-> "call",
            first |-> [ok |-> TRUE, states |-> EmptyMap],
            result |-> [ok |-> TRUE, states |-> EmptyMap]]

\* one call of calculateLayerStates(): its return value, and manualOverrides as
\* the call leaves it (characterData and activeCompositions are only read:
\* Array.from copies the set, the maps are looked up)
Recalculate ==
    /\ h.pc \in {"call", "again"}
    /\ LET r == calculateLayerStates(characterData, activeCompositions, manualOverrides)
       IN /\ h' = [h EXCEPT !.pc = IF h.pc = "call" THEN "again" ELSE "done",
                            !.first = IF h.pc = "call" THEN r ELSE h.first,
                            !.result = r]
          /\ manualOverrides' =
                 IF characterData.isNull \/ ~r.ok THEN manualOverrides
                 ELSE ObjectAssignSource(PresetStates(characterData, activeCompositions).states,
                                         manualOverrides)
    /\ UNCHANGED <<currentCharacter, characterData, loading, error, inflight,
                   activeCompositions, pendingExpression, lastOp>>

NextPure == Recalculate

SpecPure == InitPure /\ [][NextPure]_vars

(***************************************************************************)
(* Resolution and applyExpression on inputs that hold one item the parser  *)
(* cannot use                                                              *)
(***************************************************************************)
ToStringKey == <<"t", "o", "S", "t", "r", "i", "n", "g">>

\* Q: a name no composition has; >o and +: tokens without a group; toString: a
\* name no composition has, which every object inherits
JunkItems == {<<"Q">>, <<">", "o">>, <<"+">>, ToStringKey}

\* where the item is put: the layer part of default_composition.txt, a
\* composition's parts, the active set, the expression handed to applyExpression
JunkPlaces == {"baseline", "part", "active", "expression"}

\* Default,M+g:<item>,E+o
JunkDefault(item) ==
    <<"D", "e", "f", "a", "u", "l", "t", ",", "M", "+", "g", ":">> \o item
        \o <<",", "E", "+", "o", "\n">>

\* B:E>c,<item> / Default:B,<item>,E+o,M-
JunkCompositions(item) ==
    <<"B", ":", "E", ">", "c", ",">> \o item \o <<"\n">>
        \o <<"D", "e", "f", "a", "u", "l", "t", ":", "B", ",">> \o item
        \o <<",", "E", "+", "o", ",", "M", "-", "\n">>

\* Sherry's files with the item at the place
JunkData(item, place) ==
    NewCharacterData("Sherry", SherryInfo,
        IF place = "part" THEN JunkCompositions(item) ELSE SherryCompositions,
        IF place = "baseline" THEN JunkDefault(item) ELSE SherryDefault)

JunkActives == {<<>>, <<<<"B">>>>, <<DefaultText>>, <<DefaultText, <<"B">>>>}

JunkOverrides == {EmptyMap, [id \in {<<"E", "/", "c">>} |-> TRUE], [id \in {<<"M", "/", "g">>} |-> FALSE]}

\* expressions as lists of items: B,E+o and M-,Default
JunkExpressions ==
    {<< <<"B">>, <<"E", "+", "o">> >>, << <<"M", "-">>, DefaultText >>}

InitJunk ==
    /\ currentCharacter = DefaultCharacter
    /\ loading = FALSE
    /\ error = FALSE
    /\ inflight = <<>>
    /\ pendingExpression = NoPending
    /\ lastOp = "none"
    /\ manualOverrides \in JunkOverrides
    /\ \E item \in JunkItems, place \in JunkPlaces, active \in JunkActives, e \in JunkExpressions :
          /\ characterData = JunkData(item, place)
          /\ activeCompositions = IF place = "active" THEN <<item>> \o active ELSE active
          /\ h = [spec |-> "junk", pc |-> "call", item |-> item, place |-> place,
                  cleanActive |-> active, cleanOverrides |-> manualOverrides,
                  expression |-> IF place = "expression"
                                 THEN Join(<<e[1], item, e[2]>>, ",")
                                 ELSE Join(e, ","),
                  cleanExpression |-> Join(e, ","),
                  resolved |-> [ok |-> TRUE, states |-> EmptyMap]]

\* the render's calculateLayerStates()
ResolveJunk ==
    /\ h.pc = "call"
    /\ h' = [h EXCEPT !.pc = "resolved",
                      !.resolved = calculateLayerStates(characterData, activeCompositions,
                                                        manualOverrides)]
    /\ UNCHANGED <<currentCharacter, characterData, loading, error, inflight,
                   activeCompositions, manualOverrides, pendingExpression, lastOp>>

\* applyExpression(expression)
ApplyJunk ==
    /\ h.pc = "resolved"
    /\ LET a == applyExpression(characterData, h.expression)
       IN /\ activeCompositions' = a.active
          /\ manualOverrides' = a.overrides
    /\ h' = [h EXCEPT !.pc = "done"]
    /\ UNCHANGED <<currentCharacter, characterData, loading, error, inflight,
                   pendingExpression, lastOp>>

NextJunk == ResolveJunk \/ ApplyJunk

SpecJunk == InitJunk /\ [][NextJunk]_vars

(***************************************************************************)
(* parseLayerString on its own, over every short layer string              *)
(***************************************************************************)
\* longest layer string parsed
MaxTokenLen == 3

TokenChars == {"E", "o", "+", "-", ">"}

Tokens == UNION {[1..n -> TokenChars] : n \in 0..MaxTokenLen}

InitParse ==
    /\ currentCharacter = DefaultCharacter
    /\ characterData = SherryData
    /\ loading = FALSE
    /\ error = FALSE
    /\ inflight = <<>>
    /\ activeCompositions = <<>>
    /\ manualOverrides = EmptyMap
    /\ pendingExpression = NoPending
    /\ lastOp = "none"
    /\ h \in {[spec |-> "parse", pc |-> "call", layerStr |-> t,
               out |-> [group |-> <<>>, name |-> <<>>, op |-> "+"]] : t \in Tokens}

\* parseLayerString(layerStr)
ParseToken ==
    /\ h.pc = "call"
    /\ h' = [h EXCEPT !.pc = "done", !.out = parseLayerString(h.layerStr)]
    /\ UNCHANGED <<currentCharacter, characterData, loading, error, inflight,
                   activeCompositions, manualOverrides, pendingExpression, lastOp>>

NextParse == ParseToken

SpecParse == InitParse /\ [][NextParse]_vars

(***************************************************************************)
(* parseDefaultComposition on its own, over lines built from short item    *)
(* lists                                                                   *)
(***************************************************************************)
\* most items between two colons of a line
MaxItems == 2

\* items written before the first colon: P, R, E+o, " M-", >o and the empty item
HeadItems == {<<"P">>, <<"R">>, <<"E", "+", "o">>, <<" ", "M", "-">>, <<">", "o">>, <<>>}

\* items written after the first colon: E>c, Q, " M+g " and the empty item
TailItems == {<<"E", ">", "c">>, <<"Q">>, <<" ", "M", "+", "g", " ">>, <<>>}

\* items written after a second colon: M-g, R
LateItems == {<<"M", "-", "g">>, <<"R">>}

ItemLists(items) == UNION {[1..n -> items] : n \in 0..MaxItems}

\* the line of default_composition.txt: one, two or three colon-separated lists
BaselineTexts ==
    {Join(hd, ",") : hd \in ItemLists(HeadItems)}
    \cup {Join(hd, ",") \o <<":">> \o Join(tl, ",") :
             hd \in ItemLists(HeadItems), tl \in ItemLists(TailItems)}
    \cup {Join(hd, ",") \o <<":">> \o Join(tl, ",") \o <<":">> \o late \o <<",">> \o late2 :
             hd \in ItemLists(HeadItems), tl \in ItemLists(TailItems),
             late \in LateItems, late2 \in LateItems}

InitBaseline ==
    /\ currentCharacter = DefaultCharacter
    /\ characterData = SherryData
    /\ loading = FALSE
    /\ error = FALSE
    /\ inflight = <<>>
    /\ activeCompositions = <<>>
    /\ manualOverrides = EmptyMap
    /\ pendingExpression = NoPending
    /\ lastOp = "none"
    /\ h \in {[spec |-> "baseline", pc |-> "call", text |-> t \o <<"\n">>,
               out |-> [layers |-> <<>>, presets |-> <<>>]] : t \in BaselineTexts}

\* parseDefaultComposition(text)
ParseBaseline ==
    /\ h.pc = "call"
    /\ h' = [h EXCEPT !.pc = "done", !.out = parseDefaultComposition(h.text)]
    /\ UNCHANGED <<currentCharacter, characterData, loading, error, inflight,
                   activeCompositions, manualOverrides, pendingExpression, lastOp>>

NextBaseline == ParseBaseline

SpecBaseline == InitBaseline /\ [][NextBaseline]_vars

(***************************************************************************)
(* applyExpression and the render after it, over every short expression on *)
(* a registry with a composition named like a layer string                 *)
(***************************************************************************)
\* most items of an expression
MaxParts == 3

\* B:E>c / E+c:M- / W:E+c,E+o
NoaCompositions ==
    <<"B", ":", "E", ">", "c", "\n", "E", "+", "c", ":", "M", "-", "\n",
      "W", ":", "E", "+", "c", ",", "E", "+", "o", "\n">>

\* :M+g
NoaDefault == <<":", "M", "+", "g", "\n">>

NoaData == NewCharacterData("Noa", SherryInfo, NoaCompositions, NoaDefault)

\* B, W, E+c (a composition's name), E+o, E>c, M-, Q, toString
ExpressionItems ==
    {<<"B">>, <<"W">>, <<"E", "+", "c">>, <<"E", "+", "o">>, <<"E", ">", "c">>, <<"M", "-">>,
     <<"Q">>, ToStringKey}

Expressions == {Join(items, ",") : items \in UNION {[1..n -> ExpressionItems] : n \in 0..MaxParts}}

InitExpr ==
    /\ currentCharacter = "Noa"
    /\ characterData = NoaData
    /\ loading = FALSE
    /\ error = FALSE
    /\ inflight = <<>>
    /\ activeCompositions = <<>>
    /\ manualOverrides = EmptyMap
    /\ pendingExpression = NoPending
    /\ lastOp = "none"
    /\ h \in {[spec |-> "expr", pc |-> "call", expression |-> e,
               resolved |-> [ok |-> TRUE, states |-> EmptyMap]] : e \in Expressions}

\* applyExpression(expression)
ApplyTyped ==
    /\ h.pc = "call"
    /\ LET a == applyExpression(characterData, h.expression)
       IN /\ activeCompositions' = a.active
          /\ manualOverrides' = a.overrides
    /\ h' = [h EXCEPT !.pc = "applied"]
    /\ UNCHANGED <<currentCharacter, characterData, loading, error, inflight,
                   pendingExpression, lastOp>>

\* the next render's calculateLayerStates()
ResolveTyped ==
    /\ h.pc = "applied"
    /\ h' = [h EXCEPT !.pc = "done",
                      !.resolved = calculateLayerStates(characterData, activeCompositions,
                                                        manualOverrides)]
    /\ UNCHANGED <<currentCharacter, characterData, loading, error, inflight,
                   activeCompositions, manualOverrides, pendingExpression, lastOp>>

NextExpr == ApplyTyped \/ ResolveTyped

SpecExpr == InitExpr /\ [][NextExpr]_vars

(***************************************************************************)
(* generateExpression on its own, with overrides on ids the catalog lacks  *)
(***************************************************************************)
\* three ids of Hiro's catalog and two it does not have: A/w, Q/g
StaleOverrideIds ==
    {<<"A", "/", "x">>, <<"A", "/", "y">>, <<"M", "/", "g">>, <<"A", "/", "w">>, <<"Q", "/", "g">>}

StaleOverrides == UNION {[d -> BOOLEAN] : d \in SUBSET StaleOverrideIds}

InitStale ==
    /\ currentCharacter = "Hiro"
    /\ characterData = HiroData
    /\ loading = FALSE
    /\ error = FALSE
    /\ inflight = <<>>
    /\ activeCompositions \in SynthActives
    /\ manualOverrides \in StaleOverrides
    /\ pendingExpression = NoPending
    /\ lastOp = "none"
    /\ h = [spec |-> "stale", pc |-> "call", out |-> <<>>]

SpecStale == InitStale /\ [][NextSynth]_vars

(***************************************************************************)
(* The same pose button pressed twice                                      *)
(***************************************************************************)
ToggleActives ==
    {<<>>, <<<<"B">>>>, <<DefaultText>>, <<<<"B">>, DefaultText>>, <<DefaultText, <<"B">>>>}

InitToggle ==
    /\ currentCharacter = DefaultCharacter
    /\ characterData = SherryData
    /\ loading = FALSE
    /\ error = FALSE
    /\ inflight = <<>>
    /\ activeCompositions \in ToggleActives
    /\ manualOverrides \in ResolveOverrides
    /\ pendingExpression = NoPending
    /\ lastOp = "none"
    /\ \E name \in DOMAIN characterData.compositions :
          h = [spec |-> "toggle", name |-> name, calls |-> 0,
               active |-> activeCompositions,
               states |-> currentStates,
               text |-> shownExpression]

\* toggleComposition(name), the first and the second time
ToggleSame ==
    /\ h.calls < 2
    /\ activeCompositions' = toggleComposition(activeCompositions, h.name)
    /\ h' = [h EXCEPT !.calls = h.calls + 1]
    /\ UNCHANGED <<currentCharacter, characterData, loading, error, inflight,
                   manualOverrides, pendingExpression, lastOp>>

NextToggle == ToggleSame

SpecToggle == InitToggle /\ [][NextToggle]_vars

(***************************************************************************)
(* scripts/convert-images: ConcurrentQueue                                 *)
(***************************************************************************)
\* tasks handed to add
MaxTasks == 3

\* largest limit a queue is constructed with
MaxLimit == 2

QueueTasks == 1..MaxTasks

\* run() that starts a task while running <= limit
RECURSIVE RunOverLimit(_)
RunOverLimit(q) ==
    IF q.running <= q.limit /\ Len(q.queue) > 0
    THEN LET t == Head(q.queue)
         IN RunOverLimit([q EXCEPT !.queue = Tail(q.queue),
                                   !.running = q.running + 1,
                                   !.started = Append(q.started, t),
                                   !.task[t] = "running"])
    ELSE q

\* run() that takes the entry added last
RECURSIVE RunLastFirst(_)
RunLastFirst(q) ==
    IF q.running < q.limit /\ Len(q.queue) > 0
    THEN LET t == q.queue[Len(q.queue)]
         IN RunLastFirst([q EXCEPT !.queue = SubSeq(q.queue, 1, Len(q.queue) - 1),
                                   !.running = q.running + 1,
                                   !.started = Append(q.started, t),
                                   !.task[t] = "running"])
    ELSE q

\* run(): while (this.running < this.limit && this.queue.length > 0) shift an
\* entry, count it and call its task
RECURSIVE Run(_)
Run(q) ==
    IF q.running < q.limit /\ Len(q.queue) > 0
    THEN LET t == Head(q.queue)
         IN Run([q EXCEPT !.queue = Tail(q.queue),
                          !.running = q.running + 1,
                          !.started = Append(q.started, t),
                          !.task[t] = "running"])
    ELSE q

\* new ConcurrentQueue(limit); task: new, queued, running, fulfilled, rejected;
\* promise: what add returned for the task; released: tasks whose finally ran
InitQueue ==
    /\ currentCharacter = DefaultCharacter
    /\ characterData = NullData
    /\ loading = FALSE
    /\ error = FALSE
    /\ inflight = <<>>
    /\ activeCompositions = <<>>
    /\ manualOverrides = EmptyMap
    /\ pendingExpression = NoPending
    /\ lastOp = "none"
    /\ h \in {[spec |-> "queue", limit |-> n, running |-> 0, queue |-> <<>>,
               added |-> <<>>, started |-> <<>>,
               task |-> [t \in QueueTasks |-> "new"],
               promise |-> [t \in QueueTasks |-> "none"],
               released |-> {}] : n \in 1..MaxLimit}

QueueFrame ==
    UNCHANGED <<currentCharacter, characterData, loading, error, inflight,
                activeCompositions, manualOverrides, pendingExpression, lastOp>>

\* add(task): the entry is pushed and run() is called
QueueAdd(t) ==
    /\ h.spec = "queue"
    /\ h.task[t] = "new"
    /\ h' = Run([h EXCEPT !.queue = Append(h.queue, t),
                          !.added = Append(h.added, t),
                          !.task[t] = "queued",
                          !.promise[t] = "pending"])
    /\ QueueFrame

\* the promise returned by task() settles
QueueSettle(t, outcome) ==
    /\ h.spec = "queue"
    /\ h.task[t] = "running"
    /\ h' = [h EXCEPT !.task[t] = outcome]
    /\ QueueFrame

\* .then(resolve).catch(reject)
QueueDeliver(t) ==
    /\ h.spec = "queue"
    /\ h.task[t] \in {"fulfilled", "rejected"}
    /\ h.promise[t] = "pending"
    /\ h' = [h EXCEPT !.promise[t] = IF h.task[t] = "fulfilled" THEN "resolved" ELSE "rejected"]
    /\ QueueFrame

\* .finally(() => { this.running--; this.run() })
QueueRelease(t) ==
    /\ h.spec = "queue"
    /\ h.promise[t] \in {"resolved", "rejected"}
    /\ t \notin h.released
    /\ h' = Run([h EXCEPT !.running = h.running - 1,
                          !.released = h.released \cup {t}])
    /\ QueueFrame

NextQueue ==
    \/ \E t \in QueueTasks : QueueAdd(t)
    \/ \E t \in QueueTasks, outcome \in {"fulfilled", "rejected"} : QueueSettle(t, outcome)
    \/ \E t \in QueueTasks : QueueDeliver(t)
    \/ \E t \in QueueTasks : QueueRelease(t)

SpecQueue == InitQueue /\ [][NextQueue]_vars

\* every started task settles, and the promise reactions run
SpecQueueLive ==
    /\ SpecQueue
    /\ \A t \in QueueTasks :
          /\ WF_vars(\E outcome \in {"fulfilled", "rejected"} : QueueSettle(t, outcome))
          /\ WF_vars(QueueDeliver(t))
          /\ WF_vars(QueueRelease(t))

(***************************************************************************)
(* Properties                                                              *)
(***************************************************************************)
\* two maps agree on every layer id of the catalog
SameOnCatalog(data, a, b) ==
    \A id \in LayerIds(data.layers) : Truthy(a, id) = Truthy(b, id)

\* the map resolved after applyExpression(text) on the same character data
ResolvedAfterApplying(data, text) ==
    LET a == applyExpression(data, text)
    IN calculateLayerStates(data, a.active, a.overrides).states

\* C1: round trip. With a character loaded, applying the synthesized expression
\* as a user expression and resolving again gives the current resolved map on
\* every catalog layer id.
RoundTrip ==
    (h.spec = "editor" /\ ~characterData.isNull) =>
        SameOnCatalog(characterData,
                      ResolvedAfterApplying(characterData, shownExpression), currentStates)

\* the round trip of every expression other than the fallback text
RoundTripUnlessFallback ==
    (h.spec = "editor" /\ ~characterData.isNull /\ shownExpression # DefaultText) =>
        SameOnCatalog(characterData,
                      ResolvedAfterApplying(characterData, shownExpression), currentStates)

\* C2: override precedence. With a character loaded, every id of manualOverrides
\* has exactly the override's value in the resolved map.
OverridePrecedence ==
    (h.spec = "editor" /\ ~characterData.isNull) =>
        \A id \in DOMAIN manualOverrides :
            id \in DOMAIN currentStates /\ currentStates[id] = manualOverrides[id]

\* an override contradicts an active composition's exclusive op: a sibling is
\* overridden on, and two layers of the group are on
OverridePrecedenceWitness ==
    /\ h.spec = "editor"
    /\ characterData.name = "Sherry" /\ ~characterData.isNull
    /\ activeCompositions = <<<<"B">>>>
    /\ <<"E", "/", "o">> \in DOMAIN manualOverrides
    /\ manualOverrides[<<"E", "/", "o">>]
    /\ Truthy(currentStates, <<"E", "/", "o">>)
    /\ Truthy(currentStates, <<"E", "/", "c">>)

\* the layer strings calculateLayerStates applies, in order: the baseline's, then
\* each active composition's with nested compositions expanded in place
RECURSIVE FlatParts(_, _)
FlatParts(data, parts) ==
    IF parts = <<>> THEN <<>>
    ELSE LET part == Head(parts)
         IN (IF part \in DOMAIN data.compositions
             THEN FlatParts(data, data.compositions[part])
             ELSE <<part>>) \o FlatParts(data, Tail(parts))

RECURSIVE FlatNames(_, _)
FlatNames(data, names) ==
    IF names = <<>> THEN <<>>
    ELSE (IF Head(names) \in DOMAIN data.compositions
          THEN FlatParts(data, data.compositions[Head(names)])
          ELSE <<>>) \o FlatNames(data, Tail(names))

FlatOps(data, active) == data.defaultComposition.layers \o FlatNames(data, active)

\* layer string str writes layer id
Writes(data, str, id) ==
    LET p == parseLayerString(str)
    IN /\ p.group # <<>>
       /\ IF p.op = ">" \/ (p.op = "-" /\ p.name = <<>>)
          THEN \E i \in 1..Len(data.layers) :
                   data.layers[i].group = p.group /\ data.layers[i].id = id
          ELSE id = LayerId(p.group, p.name)

\* the value layer string str writes to layer id
Written(data, str, id) ==
    LET p == parseLayerString(str)
    IN IF p.op = "+" THEN TRUE
       ELSE IF p.op = ">" THEN id = LayerId(p.group, p.name)
       ELSE FALSE

\* C3: merge precedence below the overrides. A layer id outside manualOverrides
\* has the value written by the last layer string of the sequence that writes it,
\* and is absent from the resolved map when none does.
MergePrecedence ==
    (h.spec = "editor" /\ ~characterData.isNull) =>
        LET ops == FlatOps(characterData, activeCompositions)
            ids == LayerIds(characterData.layers) \cup DOMAIN currentStates
                   \cup {LayerId(parseLayerString(ops[i]).group, parseLayerString(ops[i]).name) :
                            i \in 1..Len(ops)}
        IN \A id \in ids \ DOMAIN manualOverrides :
               LET writers == {i \in 1..Len(ops) : Writes(characterData, ops[i], id)}
               IN IF writers = {} THEN id \notin DOMAIN currentStates
                  ELSE LET last == CHOOSE i \in writers : \A j \in writers : j <= i
                       IN id \in DOMAIN currentStates
                          /\ currentStates[id] = Written(characterData, ops[last], id)

\* both orders of two compositions that write the same layer differently, with a
\* baseline value overwritten by a composition and another that survives
MergePrecedenceWitness ==
    /\ h.spec = "editor"
    /\ characterData.name = "Sherry" /\ ~characterData.isNull
    /\ activeCompositions = <<<<"D", "e", "f", "a", "u", "l", "t">>, <<"B">>>>
    /\ manualOverrides = EmptyMap
    /\ ~Truthy(currentStates, <<"E", "/", "o">>)
    /\ Truthy(currentStates, <<"E", "/", "c">>)
    /\ ~Truthy(currentStates, <<"M", "/", "g">>)

\* the catalog layers of a group
LayersOfGroup(layers, group) == {i \in 1..Len(layers) : layers[i].group = group}

\* the catalog layers of a group that are true in a map
OnInGroup(layers, group, m) == {i \in LayersOfGroup(layers, group) : Truthy(m, layers[i].id)}

\* the harness applied an Exclusive op (group>name)
AppliedExclusive ==
    /\ h.spec = "ops" /\ h.pc = "done"
    /\ parseLayerString(h.layerStr).group # <<>>
    /\ parseLayerString(h.layerStr).op = ">"

\* C4 as stated: after an Exclusive(g, n) op exactly one catalog layer of g is
\* true, the one named n, and every sibling is false.
ExclusiveExactlyOne ==
    AppliedExclusive =>
        LET p == parseLayerString(h.layerStr)
            layers == characterData.layers
        IN /\ Cardinality(OnInGroup(layers, p.group, h.out)) = 1
           /\ \A i \in LayersOfGroup(layers, p.group) :
                  Truthy(h.out, layers[i].id) = (layers[i].name = p.name)

\* C4 as amended: after an Exclusive(g, n) op every catalog layer of g has an
\* entry, true for the layer named n and false for every other; so exactly one
\* layer of g is true when the catalog has a layer named n in g, and none is
\* true when it has not.
ExclusiveNamedOnly ==
    AppliedExclusive =>
        LET p == parseLayerString(h.layerStr)
            layers == characterData.layers
            named == {i \in LayersOfGroup(layers, p.group) : layers[i].name = p.name}
        IN /\ \A i \in LayersOfGroup(layers, p.group) :
                  /\ layers[i].id \in DOMAIN h.out
                  /\ h.out[layers[i].id] = (layers[i].name = p.name)
           /\ OnInGroup(layers, p.group, h.out) = named
           /\ Cardinality(OnInGroup(layers, p.group, h.out)) = IF named = {} THEN 0 ELSE 1

\* E>c applied to a map that had the sibling E/o on
ExclusiveWitness ==
    /\ h.spec = "ops" /\ h.pc = "done"
    /\ h.layerStr = <<"E", ">", "c">>
    /\ Truthy(h.states, <<"E", "/", "o">>)
    /\ ~Truthy(h.out, <<"E", "/", "o">>)
    /\ Truthy(h.out, <<"E", "/", "c">>)

\* C5: after ClearGroup(g) no catalog layer of g is true (each has the entry
\* false), and every other entry of the map is as it was.
ClearGroupSemantics ==
    (/\ h.spec = "ops" /\ h.pc = "done"
     /\ parseLayerString(h.layerStr).group # <<>>
     /\ parseLayerString(h.layerStr).op = "-"
     /\ parseLayerString(h.layerStr).name = <<>>) =>
        LET p == parseLayerString(h.layerStr)
            layers == characterData.layers
            cleared == {layers[i].id : i \in LayersOfGroup(layers, p.group)}
        IN /\ \A id \in cleared : id \in DOMAIN h.out /\ ~h.out[id]
           /\ OnInGroup(layers, p.group, h.out) = {}
           /\ DOMAIN h.out = DOMAIN h.states \cup cleared
           /\ \A id \in DOMAIN h.states \ cleared : h.out[id] = h.states[id]

\* E- applied to a map with a layer of E on and a layer of another group on
ClearGroupWitness ==
    /\ h.spec = "ops" /\ h.pc = "done"
    /\ h.layerStr = <<"E", "-">>
    /\ Truthy(h.states, <<"E", "/", "o">>)
    /\ Truthy(h.states, <<"M", "/", "g">>)
    /\ ~Truthy(h.out, <<"E", "/", "o">>)
    /\ Truthy(h.out, <<"M", "/", "g">>)

\* C6: resolution is total: calculateLayerStates returns a map for every
\* registry and active set; no error escapes.
ResolveTotal == (h.spec = "resolve" /\ h.pc = "done") => h.result.ok

\* C7: a change of the loaded character resets the editing state: the active set
\* is empty or the new baseline's presets, and manualOverrides is empty (a pending
\* expression applied to the new character aside).
SwitchResets ==
    [][(/\ ~characterData.isNull /\ ~characterData'.isNull
        /\ characterData'.name # characterData.name
        /\ ~pendingExpression.set)
       => /\ activeCompositions' \in {<<>>, resetActive(characterData')}
          /\ manualOverrides' = EmptyMap]_vars

\* s holds the elements of a, each once, in the order of their first occurrence
IsOrderedSetOf(s, a) ==
    /\ Range(s) = Range(a)
    /\ \A i, j \in 1..Len(s) : i < j => s[i] # s[j]
    /\ \A i, j \in 1..Len(s) :
           i < j => (CHOOSE k \in 1..Len(a) : a[k] = s[i] /\ \A m \in 1..(k - 1) : a[m] # s[i])
                    < (CHOOSE k \in 1..Len(a) : a[k] = s[j] /\ \A m \in 1..(k - 1) : a[m] # s[j])

\* C8: resetToDefault with a character loaded leaves the active set equal to the
\* baseline's presets in listed order and manualOverrides empty; with no
\* character loaded it changes neither.
ResetPost ==
    [][lastOp' = "resetToDefault" =>
          IF characterData.isNull
          THEN UNCHANGED <<activeCompositions, manualOverrides>>
          ELSE /\ IsOrderedSetOf(activeCompositions', characterData.defaultComposition.presets)
               /\ manualOverrides' = EmptyMap]_vars

\* a reset that put a non-empty preset list in force
ResetWitness ==
    /\ h.spec = "editor"
    /\ lastOp = "resetToDefault"
    /\ ~characterData.isNull
    /\ activeCompositions = <<<<"D", "e", "f", "a", "u", "l", "t">>>>
    /\ manualOverrides = EmptyMap

\* C9: atomic replacement: the loaded layers, compositions and default composition
\* are those parsed from the files of the one character characterData names.
AtomicReplacement ==
    (h.spec = "editor" /\ ~characterData.isNull) =>
        /\ characterData.name \in Characters
        /\ characterData.layers = LoadedData(characterData.name).layers
        /\ characterData.compositions = LoadedData(characterData.name).compositions
        /\ characterData.defaultComposition = LoadedData(characterData.name).defaultComposition

\* a load replaced another character's data while a further load is in flight
AtomicReplacementWitness ==
    /\ h.spec = "editor"
    /\ lastOp = "loadResolve"
    /\ characterData.name = "Ema" /\ ~characterData.isNull
    /\ inflight = <<"Sherry">>

\* the override tokens of a synthesized expression: what follows the active names
OverrideTokensOf(out, active) ==
    LET parts == Split(out, ",")
    IN IF out = DefaultText /\ active = <<>> THEN <<>>
       ELSE SubSeq(parts, Len(active) + 1, Len(parts))

\* every override token on the catalog's groups and layer names
CatalogTokens(layers) ==
    {layers[i].group \o <<op>> \o layers[j].name :
        i \in 1..Len(layers), j \in 1..Len(layers), op \in OpChars}
    \cup {layers[i].group \o <<"-">> : i \in 1..Len(layers)}

\* tokens applied as manual overrides over the active compositions resolve to final
Reproduces(data, active, tokens, final) ==
    SameOnCatalog(data,
        calculateLayerStates(data, active,
            ExpressionParts(data, tokens, [active |-> <<>>, overrides |-> EmptyMap]).overrides).states,
        final)

\* some sequence of fewer than n catalog tokens reproduces final
ShorterReproduces(data, active, final, n) ==
    \E k \in 0..(n - 1) :
        \E tokens \in [1..k -> CatalogTokens(data.layers)] :
            Reproduces(data, active, tokens, final)

\* C10 as stated: no sequence of fewer override tokens than the synthesized ones
\* resolves, over the same active compositions, to the same map on the catalog.
SynthesisShortest ==
    (h.spec = "synth" /\ h.pc = "done") =>
        ~ShorterReproduces(characterData, activeCompositions, currentStates,
                           Len(OverrideTokensOf(h.out, activeCompositions)))

\* in every group with two or more layers on, no more layers differ from the
\* preset state than are on
FewDifferences(data, active, final) ==
    LET layers == data.layers
        preset == PresetStates(data, active).states
    IN \A g \in {layers[i].group : i \in 1..Len(layers)} :
           LET on == OnInGroup(layers, g, final)
               differing == {i \in LayersOfGroup(layers, g) :
                                Truthy(final, layers[i].id) # Truthy(preset, layers[i].id)}
           IN Cardinality(on) >= 2 => Cardinality(differing) <= Cardinality(on)

\* C10 as amended: the synthesized override tokens reproduce the map, and no
\* sequence of fewer tokens does, provided that in every group with two or more
\* layers on no more layers differ from the preset state than are on.
SynthesisShortestWhenFewDiffer ==
    (h.spec = "synth" /\ h.pc = "done") =>
        /\ Reproduces(characterData, activeCompositions,
                      OverrideTokensOf(h.out, activeCompositions), currentStates)
        /\ FewDifferences(characterData, activeCompositions, currentStates) =>
               ~ShorterReproduces(characterData, activeCompositions, currentStates,
                                  Len(OverrideTokensOf(h.out, activeCompositions)))

\* per-layer tokens were synthesized for a group with several layers on, and the
\* other group needed one more
SynthesisWitness ==
    /\ h.spec = "synth" /\ h.pc = "done"
    /\ activeCompositions = <<<<"P">>>>
    /\ FewDifferences(characterData, activeCompositions, currentStates)
    /\ Cardinality(OnInGroup(characterData.layers, <<"A">>, currentStates)) >= 2
    /\ ~Truthy(currentStates, <<"M", "/", "g">>)
    /\ Len(OverrideTokensOf(h.out, activeCompositions)) = 3

\* no element is smaller than the one before it, by code unit order
IsSorted(parts) == \A i \in 1..(Len(parts) - 1) : ~StrLess(parts[i + 1], parts[i])

\* C11: canonical ordering. The synthesized text, split at its commas, is the
\* active composition names in the order they were activated, followed by the
\* override tokens in ascending code unit order; no piece is empty, so there is
\* no leading, trailing or doubled comma.
CanonicalOrdering ==
    (h.spec = "synth" /\ h.pc = "done") =>
        LET parts == Split(h.out, ",")
            n == Len(activeCompositions)
            tokens == OverrideTokensOf(h.out, activeCompositions)
        IN /\ Len(parts) >= n
           /\ SubSeq(parts, 1, n) = activeCompositions
           /\ IsSorted(tokens)
           /\ Range(tokens) = Range(OverrideExpressions(characterData, activeCompositions,
                                                        currentStates))
           /\ Len(tokens) = Len(OverrideExpressions(characterData, activeCompositions,
                                                    currentStates))
           /\ \A i \in 1..Len(parts) : parts[i] # <<>>

\* R active and three layers of group A differing, pushed in catalog order
\* A+x, A-y, A+z and shown as R,A+x,A+z,A-y,M-
CanonicalOrderingWitness ==
    /\ h.spec = "synth" /\ h.pc = "done"
    /\ activeCompositions = <<<<"R">>>>
    /\ h.out = <<"R", ",", "A", "+", "x", ",", "A", "+", "z", ",", "A", "-", "y", ",", "M", "-">>

\* no catalog layer's final value differs from the preset-only resolution
NoDifference(data, active, final) ==
    SameOnCatalog(data, final, PresetStates(data, active).states)

\* C12 as stated: with a character loaded, the synthesized text is "Default"
\* exactly when no composition is active and no catalog layer differs from the
\* preset-only resolution.
FallbackExactly ==
    (h.spec = "editor" /\ ~characterData.isNull) =>
        (shownExpression = DefaultText
            <=> (/\ activeCompositions = <<>>
                 /\ NoDifference(characterData, activeCompositions, currentStates)))

\* C12 as amended: with a character loaded, the synthesized text is "Default"
\* exactly when no catalog layer differs from the preset-only resolution and
\* either no composition is active or the only active composition is itself
\* named Default; every other text is the active names followed by at least one
\* name or override token, none of them empty.
FallbackOrNamedDefault ==
    (h.spec = "editor" /\ ~characterData.isNull) =>
        LET out == shownExpression
            same == NoDifference(characterData, activeCompositions, currentStates)
            parts == Split(out, ",")
        IN /\ out = DefaultText
                <=> (same /\ activeCompositions \in {<<>>, <<DefaultText>>})
           /\ out # DefaultText =>
                /\ Len(activeCompositions) > 0 \/ ~same
                /\ Len(parts) >= Len(activeCompositions)
                /\ SubSeq(parts, 1, Len(activeCompositions)) = activeCompositions
                /\ Len(parts) > Len(activeCompositions) <=> ~same
                /\ \A i \in 1..Len(parts) : parts[i] # <<>>

\* the fallback text is shown although a manual override exists: the override
\* repeats the preset state, and no composition is active
FallbackWitness ==
    /\ h.spec = "editor" /\ ~characterData.isNull
    /\ activeCompositions = <<>>
    /\ manualOverrides # EmptyMap
    /\ shownExpression = DefaultText

SameAsWithout ==
    /\ h.pc # "call" =>
           h.resolved = calculateLayerStates(SherryData, h.cleanActive, h.cleanOverrides)
    /\ h.pc = "done" =>
           LET a == applyExpression(SherryData, h.cleanExpression)
           IN activeCompositions = a.active /\ manualOverrides = a.overrides

\* C14: best-effort input handling. A token without a group or a name no
\* composition has, placed among the baseline ops, a composition's parts, the
\* active set or a user expression, changes nothing: the map resolves as without
\* it and no error escapes, and applyExpression sets the active set and the
\* overrides it sets without it.
BestEffort == h.spec = "junk" => SameAsWithout

\* the same for every item that is not a property inherited from Object.prototype
BestEffortOwnNames ==
    (h.spec = "junk" /\ h.item \notin ObjectPrototypeKeys) => SameAsWithout

\* a map with every layer of the catalog on
AllOn(layers) == [id \in LayerIds(layers) |-> TRUE]

\* what an op of the kind does to a map: Enable, Disable, Exclusive, ClearGroup
KindEffect(kind, group, name, states, layers) ==
    LET on == {i \in LayersOfGroup(layers, group) : layers[i].name = name}
        touched == {layers[i].id : i \in LayersOfGroup(layers, group)}
    IN CASE kind = "Enable" -> Put(states, LayerId(group, name), TRUE)
         [] kind = "Disable" -> Put(states, LayerId(group, name), FALSE)
         [] kind = "Exclusive" ->
                [id \in (DOMAIN states) \cup touched |->
                    IF id \in touched THEN id \in {layers[i].id : i \in on} ELSE states[id]]
         [] kind = "ClearGroup" ->
                [id \in (DOMAIN states) \cup touched |-> id \notin touched /\ states[id]]

\* C15: parseLayerString splits at the first of + - >: group is the text before
\* it, name the text after it, and the op is applied as Enable for +, Exclusive
\* for >, ClearGroup for - with an empty name and Disable for - with a name; a
\* string with none of the three parses to an empty group and is not applied.
ParseAtFirstOp ==
    (h.spec = "parse" /\ h.pc = "done") =>
        LET t == h.layerStr
            p == h.out
            ops == {i \in 1..Len(t) : t[i] \in OpChars}
            layers == characterData.layers
            applied == applyLayerStrings(<<t>>, AllOn(layers), layers)
        IN IF ops = {}
           THEN p.group = <<>> /\ applied = AllOn(layers)
           ELSE LET i == CHOOSE k \in ops : \A j \in ops : k <= j
                    kind == IF t[i] = "+" THEN "Enable"
                            ELSE IF t[i] = ">" THEN "Exclusive"
                            ELSE IF p.name = <<>> THEN "ClearGroup"
                            ELSE "Disable"
                IN /\ p.group = SubSeq(t, 1, i - 1)
                   /\ p.name = SubSeq(t, i + 1, Len(t))
                   /\ p.op = t[i]
                   /\ p.group # <<>> =>
                          applied = KindEffect(kind, p.group, p.name, AllOn(layers), layers)
                   /\ p.group = <<>> => applied = AllOn(layers)

\* E-> was parsed: the first of two operators splits, the second belongs to the
\* name, and the op is a Disable
ParseWitness ==
    /\ h.spec = "parse" /\ h.pc = "done"
    /\ h.layerStr = <<"E", "-", ">">>
    /\ h.out = [group |-> <<"E">>, name |-> <<">">>, op |-> "-"]

\* the line's text before its first colon (head) and after it (tail)
HeadOf(text) ==
    LET t == Trim(text)
        i == FirstIndex(t, {":"})
    IN IF i = 0 THEN t ELSE SubSeq(t, 1, i - 1)

TailOf(text) ==
    LET t == Trim(text)
        i == FirstIndex(t, {":"})
    IN IF i = 0 THEN <<>> ELSE SubSeq(t, i + 1, Len(t))

\* the comma items of a text: trimmed, the empty ones left out
CommaItems(text) == NonEmpty(TrimAll(Split(text, ",")))

\* the items of a list that have an operator after a non-empty group
RECURSIVE OpItems(_)
OpItems(items) ==
    IF items = <<>> THEN <<>>
    ELSE IF FirstIndex(Head(items), OpChars) > 1
    THEN <<Head(items)>> \o OpItems(Tail(items))
    ELSE OpItems(Tail(items))

\* the items of a list that have no operator, or nothing before it
RECURSIVE NameItems(_)
NameItems(items) ==
    IF items = <<>> THEN <<>>
    ELSE IF FirstIndex(Head(items), OpChars) > 1
    THEN NameItems(Tail(items))
    ELSE <<Head(items)>> \o NameItems(Tail(items))

ColonCount(text) == Cardinality({i \in 1..Len(text) : text[i] = ":"})

SplitAtFirstColon ==
    (h.spec = "baseline" /\ h.pc = "done") =>
        LET headItems == CommaItems(HeadOf(h.text))
            tailItems == CommaItems(TailOf(h.text))
        IN /\ h.out.layers = tailItems \o OpItems(headItems)
           /\ h.out.presets = NameItems(headItems)

\* the items of a list that are keys of the registry
RECURSIVE KeyItems(_, _)
KeyItems(items, registry) ==
    IF items = <<>> THEN <<>>
    ELSE IF Head(items) \in DOMAIN registry
    THEN <<Head(items)>> \o KeyItems(Tail(items), registry)
    ELSE KeyItems(Tail(items), registry)

\* the items of a list that are not keys of the registry
RECURSIVE NonKeyItems(_, _)
NonKeyItems(items, registry) ==
    IF items = <<>> THEN <<>>
    ELSE IF Head(items) \in DOMAIN registry
    THEN NonKeyItems(Tail(items), registry)
    ELSE <<Head(items)>> \o NonKeyItems(Tail(items), registry)

\* C17: a user expression's atomic ops are interpreted as in macro expansion.
\* After applyExpression, manualOverrides is the map applyLayerStrings builds from
\* the expression's items that are not composition names, in textual order, on an
\* empty map over the same catalog.
ExpressionAsLayerStrings ==
    (h.spec = "expr" /\ h.pc # "call") =>
        manualOverrides =
            applyLayerStrings(NonKeyItems(CommaItems(h.expression), characterData.compositions),
                              EmptyMap, characterData.layers)

\* E>c,B,E+o was applied: B went to the active set, E>c turned o off and c on,
\* and the later E+o turned o on again
ExpressionWitness ==
    /\ h.spec = "expr" /\ h.pc # "call"
    /\ h.expression = <<"E", ">", "c", ",", "B", ",", "E", "+", "o">>
    /\ activeCompositions = <<<<"B">>>>
    /\ manualOverrides = [id \in {<<"E", "/", "o">>, <<"E", "/", "c">>} |-> TRUE]

\* the tokens the three rules give for one group: none without a differing
\* layer; g- with no layer on; g>L with exactly one layer L on; otherwise g+name
\* or g-name for each differing layer
RuleTokens(data, g, final, preset) ==
    LET layers == data.layers
        differing == {i \in LayersOfGroup(layers, g) :
                         Truthy(final, layers[i].id) # Truthy(preset, layers[i].id)}
        on == OnInGroup(layers, g, final)
    IN IF differing = {} THEN {}
       ELSE IF on = {} THEN {g \o <<"-">>}
       ELSE IF Cardinality(on) = 1 THEN {g \o <<">">> \o layers[i].name : i \in on}
       ELSE {g \o <<IF Truthy(final, layers[i].id) THEN "+" ELSE "-">> \o layers[i].name :
                i \in differing}

\* C18: one rule per group. The synthesized override tokens are, for every group
\* of the catalog, exactly the tokens of the rule that applies to it, each once,
\* and nothing for a group without a differing layer.
OneRulePerGroup ==
    (h.spec = "synth" /\ h.pc = "done") =>
        LET layers == characterData.layers
            tokens == OverrideTokensOf(h.out, activeCompositions)
            preset == PresetStates(characterData, activeCompositions).states
            expected == UNION {RuleTokens(characterData, layers[i].group, currentStates, preset) :
                                  i \in 1..Len(layers)}
        IN /\ Range(tokens) = expected
           /\ Len(tokens) = Cardinality(expected)

\* P active (x on alone), y turned on and g off by hand: group A has two layers
\* on and one differing, group M has none on
OneRulePerGroupWitness ==
    /\ h.spec = "synth" /\ h.pc = "done"
    /\ h.out = <<"P", ",", "A", "+", "y", ",", "M", "-">>

RECURSIVE ExpandByKeys(_, _, _, _)
RECURSIVE ExpandPartsByKeys(_, _, _, _)

\* expansion that classifies against the registry's keys alone: each name that
\* is a key has its parts expanded in order, `fuel` levels deep
ExpandByKeys(data, names, states, fuel) ==
    IF names = <<>> \/ fuel = 0 THEN states
    ELSE LET name == Head(names)
             after == IF name \in DOMAIN data.compositions
                      THEN ExpandPartsByKeys(data, data.compositions[name], states, fuel)
                      ELSE states
         IN ExpandByKeys(data, Tail(names), after, fuel)

\* a part that is a key is expanded, any other part is applied as a layer string
ExpandPartsByKeys(data, parts, states, fuel) ==
    IF parts = <<>> THEN states
    ELSE LET part == Head(parts)
             after == IF part \in DOMAIN data.compositions
                      THEN ExpandByKeys(data, <<part>>, states, fuel - 1)
                      ELSE applyLayerString(part, states, data.layers)
         IN ExpandPartsByKeys(data, Tail(parts), after, fuel)

\* C20: classification against the registry at the time of use. Of a user
\* expression's items, those that are composition names go to the active set,
\* in order and once each, even when they parse as layer strings, and only the
\* others are applied to the overrides; and when resolution returns a map, each
\* part of an expanded composition that is a composition name was expanded, and
\* only the other parts were applied as layer strings.
ClassifiedAgainstRegistry ==
    (h.spec = "expr" /\ h.pc # "call") =>
        LET items == CommaItems(h.expression)
            registry == characterData.compositions
            layers == characterData.layers
            baseline == applyLayerStrings(characterData.defaultComposition.layers, EmptyMap, layers)
        IN /\ KeyItems(activeCompositions, registry) = NewSet(KeyItems(items, registry))
           /\ manualOverrides = applyLayerStrings(NonKeyItems(items, registry), EmptyMap, layers)
           /\ (h.pc = "done" /\ h.resolved.ok) =>
                  h.resolved.states =
                      Assign(ExpandByKeys(characterData, activeCompositions, baseline,
                                          Cardinality(DOMAIN registry) + 1),
                             manualOverrides)

\* E+c,W was applied and resolved: E+c, a composition's name, went to the active
\* set and turned M/g off, both as an item and as a part of W, and never turned
\* E/c on
ClassifiedWitness ==
    /\ h.spec = "expr" /\ h.pc = "done"
    /\ activeCompositions = <<<<"E", "+", "c">>, <<"W">>>>
    /\ manualOverrides = EmptyMap
    /\ h.resolved.ok
    /\ ~Truthy(h.resolved.states, <<"M", "/", "g">>)
    /\ ~Truthy(h.resolved.states, <<"E", "/", "c">>)
    /\ Truthy(h.resolved.states, <<"E", "/", "o">>)

\* the map's entries on the catalog's layer ids
OnCatalog(data, states) ==
    [id \in (DOMAIN states) \cap LayerIds(data.layers) |-> states[id]]

\* the token names a layer of the catalog, or clears a group of the catalog
NamesCatalogLayer(data, token) ==
    LET p == parseLayerString(token)
    IN \/ LayerId(p.group, p.name) \in LayerIds(data.layers)
       \/ /\ p.op = "-" /\ p.name = <<>>
          /\ p.group \in {data.layers[i].group : i \in 1..Len(data.layers)}

\* C21: stale ids are ignored by synthesis. The synthesized expression is the one
\* synthesized from the map's entries on the catalog alone, so two maps that
\* agree on the catalog give the same text; and every override token names a
\* layer or a group of the catalog.
StaleIdsIgnored ==
    (h.spec = "stale" /\ h.pc = "done") =>
        /\ h.out = generateExpression(characterData, activeCompositions,
                                      OnCatalog(characterData, currentStates))
        /\ \A id \in DOMAIN currentStates \ LayerIds(characterData.layers) :
               h.out = generateExpression(characterData, activeCompositions,
                                          Put(currentStates, id, ~currentStates[id]))
        /\ LET tokens == OverrideTokensOf(h.out, activeCompositions)
           IN \A i \in 1..Len(tokens) : NamesCatalogLayer(characterData, tokens[i])

\* the map holds A/w and Q/g on, ids the catalog lacks, next to the single
\* catalog layer on in group A, and the text is P,M-
StaleWitness ==
    /\ h.spec = "stale" /\ h.pc = "done"
    /\ Truthy(currentStates, <<"A", "/", "w">>)
    /\ Truthy(currentStates, <<"Q", "/", "g">>)
    /\ h.out = <<"P", ",", "M", "-">>

\* C22: loading under quick successive selections. When no loadCharacter call is
\* pending and the last to settle succeeded, the loaded character data is that
\* of the character selected last.
LastSelectedLoaded ==
    (h.spec = "editor" /\ inflight = <<>> /\ ~error /\ ~characterData.isNull) =>
        characterData.name = currentCharacter

\* C23 as stated: two calls of toggleComposition(name) in a row give back the
\* resolved map and the synthesized expression of before the first call.
ToggleTwiceRestores ==
    (h.spec = "toggle" /\ h.calls = 2) =>
        currentStates = h.states /\ shownExpression = h.text

\* C23 as amended: two calls of toggleComposition(name) in a row leave the
\* active set as it was when name was not active or was the composition
\* activated last, and the resolved map and the synthesized expression are then
\* those of before the first call; an active name that was not the last is moved
\* to the end of the activation order.
ToggleTwiceRestoresUnlessMoved ==
    (h.spec = "toggle" /\ h.calls = 2) =>
        /\ activeCompositions =
               IF h.name \in Range(h.active) THEN Append(Without(h.active, h.name), h.name)
               ELSE h.active
        /\ (h.name \notin Range(h.active) \/ h.active[Len(h.active)] = h.name) =>
               /\ activeCompositions = h.active
               /\ currentStates = h.states
               /\ shownExpression = h.text

\* the pose activated last of two was switched off and on again, with a manual
\* override in place
ToggleTwiceWitness ==
    /\ h.spec = "toggle" /\ h.calls = 2
    /\ Len(h.active) = 2
    /\ h.active[2] = h.name
    /\ activeCompositions = h.active
    /\ manualOverrides # EmptyMap

\* C24: toggleLayer flips exactly one layer. A layer button's step negates the
\* resolved value of one catalog layer, leaves the resolved value of every other
\* id as it was, and leaves the active set as it was.
ToggleLayerFlipsOne ==
    [][(h.spec = "editor" /\ lastOp' = "toggleLayer") =>
          LET before == calculateLayerStates(characterData, activeCompositions,
                                             manualOverrides).states
              after == calculateLayerStates(characterData', activeCompositions',
                                            manualOverrides').states
          IN /\ activeCompositions' = activeCompositions
             /\ \E id \in LayerIds(characterData.layers) :
                   /\ Truthy(after, id) = ~Truthy(before, id)
                   /\ \A other \in ((DOMAIN before) \cup (DOMAIN after)) \ {id} :
                          Truthy(after, other) = Truthy(before, other)]_vars

\* with pose B active, which turns E/c on, the layer button of E/c turned it off
ToggleLayerWitness ==
    /\ h.spec = "editor" /\ lastOp = "toggleLayer"
    /\ activeCompositions = <<<<"B">>>>
    /\ manualOverrides = [id \in {<<"E", "/", "c">>} |-> FALSE]
    /\ ~Truthy(currentStates, <<"E", "/", "c">>)

\* every catalog layer of the group has an override, and it is false
PinnedOff(data, overrides, g) ==
    \A i \in LayersOfGroup(data.layers, g) :
        data.layers[i].id \in DOMAIN overrides /\ ~overrides[data.layers[i].id]

\* C25: clearGroupOverrides pins the group off. A clear button's step leaves
\* every catalog layer of its group with a false override and resolved off, and
\* the override entries of the layers outside the group as they were; and a pose
\* button's step keeps every group that is so pinned pinned and resolved off.
ClearPinsGroup ==
    [][h.spec = "editor" =>
          LET layers == characterData.layers
              groups == {layers[i].group : i \in 1..Len(layers)}
              after == calculateLayerStates(characterData', activeCompositions',
                                            manualOverrides').states
          IN /\ lastOp' = "clearGroupOverrides" =>
                    \E g \in groups :
                        LET inside == {layers[i].id : i \in LayersOfGroup(layers, g)}
                        IN /\ PinnedOff(characterData, manualOverrides', g)
                           /\ OnInGroup(layers, g, after) = {}
                           /\ DOMAIN manualOverrides' = (DOMAIN manualOverrides) \cup inside
                           /\ \A id \in (DOMAIN manualOverrides) \ inside :
                                  manualOverrides'[id] = manualOverrides[id]
                           /\ activeCompositions' = activeCompositions
             /\ lastOp' = "toggleComposition" =>
                    \A g \in groups :
                        PinnedOff(characterData, manualOverrides, g) =>
                            /\ PinnedOff(characterData, manualOverrides', g)
                            /\ OnInGroup(layers, g, after) = {}]_vars

\* group E was cleared and pose B, which turns E/c on, activated afterwards: no
\* layer of E is on
ClearPinsWitness ==
    /\ h.spec = "editor" /\ lastOp = "toggleComposition"
    /\ ~characterData.isNull
    /\ activeCompositions = <<<<"B">>>>
    /\ PinnedOff(characterData, manualOverrides, <<"E">>)
    /\ OnInGroup(characterData.layers, <<"E">>, currentStates) = {}

\* the active set is the expression's registry keys in order of first occurrence,
\* and the overrides are what the other items write on an empty map
ReplacedBy(expression) ==
    LET items == CommaItems(expression)
    IN /\ activeCompositions = NewSet(KeyItems(items, characterData.compositions))
       /\ manualOverrides =
              applyLayerStrings(NonKeyItems(items, characterData.compositions), EmptyMap,
                                characterData.layers)

\* C26: applyExpression replaces the editing state wholesale. Afterwards the
\* active set is exactly the registry keys occurring in the expression, in order
\* of first occurrence, and manualOverrides holds only what the expression's
\* layer strings wrote; nothing of the state before the call survives.
ReplacedWholesale ==
    (h.spec = "junk" /\ h.pc = "done") => ReplacedBy(h.expression)

\* the same for every expression without a name inherited from Object.prototype
ReplacedWholesaleOwnNames ==
    (h.spec = "junk" /\ h.pc = "done"
        /\ (h.place = "expression" => h.item \notin ObjectPrototypeKeys)) =>
        ReplacedBy(h.expression)

\* the items that applyExpression takes for compositions, and the others
RECURSIVE TakenAsNames(_, _)
TakenAsNames(items, registry) ==
    IF items = <<>> THEN <<>>
    ELSE IF HasEntry(registry, Head(items))
    THEN <<Head(items)>> \o TakenAsNames(Tail(items), registry)
    ELSE TakenAsNames(Tail(items), registry)

RECURSIVE TakenAsLayerStrings(_, _)
TakenAsLayerStrings(items, registry) ==
    IF items = <<>> THEN <<>>
    ELSE IF HasEntry(registry, Head(items))
    THEN TakenAsLayerStrings(Tail(items), registry)
    ELSE <<Head(items)>> \o TakenAsLayerStrings(Tail(items), registry)

\* what the render resolves after applyExpression(text)
ResolveOf(data, text) ==
    LET a == applyExpression(data, text)
    IN calculateLayerStates(data, a.active, a.overrides)

\* C27: the place of composition names among the layer strings of a user
\* expression does not matter. The render after applyExpression resolves as for
\* the same items with all names moved in front of the layer strings, and as
\* with all names moved behind them; and every layer the expression's layer
\* strings wrote resolves to the value they gave it, whatever the compositions
\* write.
NamesAndOpsCommute ==
    (h.spec = "expr" /\ h.pc = "done") =>
        LET items == CommaItems(h.expression)
            names == TakenAsNames(items, characterData.compositions)
            ops == TakenAsLayerStrings(items, characterData.compositions)
        IN /\ h.resolved = ResolveOf(characterData, Join(names \o ops, ","))
           /\ h.resolved = ResolveOf(characterData, Join(ops \o names, ","))
           /\ h.resolved.ok =>
                  \A id \in DOMAIN manualOverrides :
                      h.resolved.states[id] = manualOverrides[id]

\* E+o,B: the layer string comes before the pose that turns E/o off, and E/o
\* resolves on
NamesAndOpsWitness ==
    /\ h.spec = "expr" /\ h.pc = "done"
    /\ h.expression = <<"E", "+", "o", ",", "B">>
    /\ h.resolved.ok
    /\ Truthy(h.resolved.states, <<"E", "/", "o">>)
    /\ Truthy(h.resolved.states, <<"E", "/", "c">>)

\* C28: a pending cross-character expression is applied only when no load is in
\* progress and the loaded character is its target. A step that applies the
\* pending expression (and clears it) ends with no loadCharacter call pending and
\* with the target character's data loaded.
PendingAppliedWhenIdle ==
    [][(h.spec = "editor" /\ pendingExpression.set /\ ~pendingExpression'.set) =>
          /\ inflight' = <<>>
          /\ ~characterData'.isNull
          /\ characterData'.name = pendingExpression.char]_vars

\* C29: the queue's bound. The count `running` is between 0 and limit, it is the
\* number of tasks started whose finally has not run, and the tasks started and
\* not yet settled are among them; so no task is started with running at limit.
QueueBound ==
    h.spec = "queue" =>
        LET unreleased == {t \in QueueTasks :
                              h.task[t] \in {"running", "fulfilled", "rejected"}
                              /\ t \notin h.released}
            unsettled == {t \in QueueTasks : h.task[t] = "running"}
        IN /\ 0 <= h.running /\ h.running <= h.limit
           /\ h.running = Cardinality(unreleased)
           /\ Cardinality(unsettled) <= h.running
           /\ Len(h.queue) > 0 => h.running = h.limit

\* two tasks are running at limit 2 and the third waits in the queue
QueueBoundWitness ==
    /\ h.spec = "queue"
    /\ h.limit = 2 /\ h.running = 2
    /\ Len(h.queue) = 1
    /\ Cardinality({t \in QueueTasks : h.task[t] = "running"}) = 2

IsPrefix(a, b) == Len(a) <= Len(b) /\ SubSeq(b, 1, Len(a)) = a

NoDuplicates(a) == \A i, j \in 1..Len(a) : a[i] = a[j] => i = j

\* C30: the queue's progress. When every started task settles, the tasks started
\* are at all times the first of the tasks added, in the order of the adds and
\* each once; a promise add returned settles only as its task did; and every
\* task added is eventually started, its promise settled and its slot released,
\* whether the task was fulfilled or rejected.
QueueProgress ==
    /\ [](h.spec = "queue" =>
            /\ IsPrefix(h.started, h.added)
            /\ NoDuplicates(h.started)
            /\ \A t \in QueueTasks :
                  /\ h.promise[t] = "resolved" => h.task[t] = "fulfilled"
                  /\ h.promise[t] = "rejected" => h.task[t] = "rejected")
    /\ \A t \in QueueTasks :
          (h.spec = "queue" /\ h.task[t] # "new")
              ~> (/\ \E i \in 1..Len(h.started) : h.started[i] = t
                  /\ h.promise[t] \in {"resolved", "rejected"}
                  /\ t \in h.released)

\* at limit 1 three tasks were added, the second waited and was rejected, the
\* third started after it, and all three promises settled and slots are free
QueueProgressWitness ==
    /\ h.spec = "queue"
    /\ h.limit = 1
    /\ h.added = <<1, 2, 3>> /\ h.started = <<1, 2, 3>>
    /\ h.promise = <<"resolved", "rejected", "resolved">>
    /\ h.released = QueueTasks
    /\ h.running = 0

====
